---- MODULE Spec2Model ----
(***************************************************************************)
(* Model of space_switch_tool.py: the SpaceSwitchTool dialog driving a    *)
(* host animation scene (maya.cmds).  The scene is a current time, a      *)
(* current value per attribute plug and an animation curve per plug.  A   *)
(* handler of the dialog is a function from an execution record to an     *)
(* execution record, composed of the scene calls it makes in the order of *)
(* the source.  A tag [a-b symbol] names the source lines a definition    *)
(* models.                                                                *)
(***************************************************************************)
EXTENDS Integers, Sequences, FiniteSets, TLC

\* ------------------------------------------------------------------ bounds
\* last frame of the modelled timeline (frames 0..MaxFrame, keys also at -1)
MaxFrame == 3
\* largest value a space attribute is given by the animator
MaxSpaceValue == 1
\* number of switch executions in one behaviour
MaxSwitches == 2

\* ------------------------------------------------------------- scene names
\* [242-244 create_transform_keys]
Channels == <<"translateX", "translateY", "translateZ", "rotateX", "rotateY", "rotateZ", "scaleX", "scaleY", "scaleZ">>

\* [242-244 create_transform_keys]
ChannelSet == {Channels[i] : i \in 1..Len(Channels)}

\* [1612-1613 SpaceSwitchTool.set_space_switch] tx, ty, tz, rx, ry, rz
TR == {"translateX", "translateY", "translateZ", "rotateX", "rotateY", "rotateZ"}

\* [2073-2073 SpaceSwitchTool.set_fk_to_ik_switch] tx, ty, tz
Trans == {"translateX", "translateY", "translateZ"}

\* [1984-1984 SpaceSwitchTool.set_ik_to_fk_switch] rx, ry, rz
Rot == {"rotateX", "rotateY", "rotateZ"}

\* The scene the dialog is used on; the node names are chosen here.
\* the space-switch rig: a control and the node carrying its space attributes
Ctl == "ctl"
Rig == "rig"
SpaceA == <<Rig, "spaceA">>
SpaceB == <<Rig, "spaceB">>
SpacePlugs == {SpaceA, SpaceB}

\* the arm rig: three joints, three FK controls, two IK controls and the node
\* carrying the IK/FK blend and the visibility attributes
ShoulderJnt == "shoulder_jnt"
ElbowJnt == "elbow_jnt"
WristJnt == "wrist_jnt"
FkShoulder == "fk_shoulder"
FkElbow == "fk_elbow"
FkWrist == "fk_wrist"
IkElbow == "ik_elbow"
IkWrist == "ik_wrist"
Arm == "arm"
ArmSwitch == <<Arm, "ikfk">>
FkVis == <<Arm, "fkVis">>
IkVis == <<Arm, "ikVis">>
ArmPlugs == {ArmSwitch, FkVis, IkVis}

Joints == {ShoulderJnt, ElbowJnt, WristJnt}
ArmControls == {FkShoulder, FkElbow, FkWrist, IkElbow, IkWrist}
Controls == {Ctl} \cup ArmControls

\* [85-106 check_node_type] cmds.nodeType(node)
nodeType(n) == IF n \in Joints THEN "joint" ELSE IF n \in Controls THEN "transform" ELSE "network"

\* [1326-1333 SpaceSwitchTool.validate_switch_data] the plugs of a node
NodePlugs(n) == IF n \in Controls THEN {<<n, c>> : c \in ChannelSet} ELSE IF n = Rig THEN SpacePlugs ELSE IF n = Arm THEN ArmPlugs ELSE {}

\* [1326-1333 SpaceSwitchTool.validate_switch_data]
PlugsOf(ns) == UNION {NodePlugs(n) : n \in ns}

SpaceRigNodes == {Ctl, Rig}
ArmRigNodes == Joints \cup ArmControls \cup {Arm}

\* ---------------------------------------------------------------- vectors
\* the sum of two vectors
VAdd(a, b) == <<a[1] + b[1], a[2] + b[2], a[3] + b[3]>>
\* the difference of two vectors
VSub(a, b) == <<a[1] - b[1], a[2] - b[2], a[3] - b[3]>>

\* the largest element of a set
SetMax(S) == CHOOSE x \in S : \A y \in S : y <= x
\* the smallest element of a set
SetMin(S) == CHOOSE x \in S : \A y \in S : x <= y

\* list(set(..)); .sort()
RECURSIVE SortedSeq(_)
SortedSeq(S) == IF S = {} THEN <<>> ELSE <<SetMin(S)>> \o SortedSeq(S \ {SetMin(S)})

\* the elements of a sequence
SeqToSet(s) == {s[i] : i \in 1..Len(s)}

\* s[-1]
Last(s) == s[Len(s)]
\* s[:-1]
Front(s) == SubSeq(s, 1, Len(s) - 1)

\* range(a, b + 1)
RangeSeq(a, b) == [i \in 1..(IF b >= a THEN b - a + 1 ELSE 0) |-> a + i - 1]

\* ------------------------------------------------------- animation curves
\* A curve is a function from its key times to the keyed values.  A plug
\* without keys keeps the value last set on it; a plug with keys is
\* re-evaluated each time the current time is edited, holding the value of
\* the latest key at or before the frame (stepped) and the first key before
\* the first key time.
\* [1444-1446 SpaceSwitchTool.space_switch]
NoCurve == [t \in {} |-> 0]

\* [1444-1444 SpaceSwitchTool.space_switch]
KeyTimes(curve) == DOMAIN curve

\* [1604-1604 SpaceSwitchTool.set_space_switch]
EvalCurve(curve, t, cur) == IF KeyTimes(curve) = {} THEN cur ELSE IF \A k \in KeyTimes(curve) : k > t THEN curve[SetMin(KeyTimes(curve))] ELSE curve[SetMax({k \in KeyTimes(curve) : k <= t})]

\* [249-250 create_transform_keys]
SetKey(curve, t, v) == [k \in KeyTimes(curve) \cup {t} |-> IF k = t THEN v ELSE curve[k]]

\* [1604-1604 SpaceSwitchTool.set_space_switch] values every plug has at frame t
ValuesAt(keys, val, t) == [p \in DOMAIN val |-> EvalCurve(keys[p], t, val[p])]

\* -------------------------------------------------------------- transforms
\* The parent space of the control is selected by the space attributes: the
\* world pose is the local pose displaced by the offset of the active space.
\* [355-355 get_world_matrix]
SpaceOffsetT(val) == <<4 * val[SpaceA] + 9 * val[SpaceB], 0, 0>>
\* [356-356 get_world_matrix]
SpaceOffsetR(val) == <<0, 0, 5 * val[SpaceA] + 11 * val[SpaceB]>>

\* [355-355 get_world_matrix]
LocalT(val, n) == <<val[<<n, "translateX">>], val[<<n, "translateY">>], val[<<n, "translateZ">>]>>
\* [356-356 get_world_matrix]
LocalR(val, n) == <<val[<<n, "rotateX">>], val[<<n, "rotateY">>], val[<<n, "rotateZ">>]>>

\* [355-355 get_world_matrix]
ParentT(val, n) == IF n = Ctl THEN SpaceOffsetT(val) ELSE <<0, 0, 0>>
\* [356-356 get_world_matrix]
ParentR(val, n) == IF n = Ctl THEN SpaceOffsetR(val) ELSE <<0, 0, 0>>

\* The joints of the arm are driven: by the IK controls while the blend
\* attribute is 1 or more, by the FK controls otherwise.
\* [2017-2019 SpaceSwitchTool.get_fk_to_ik_switch] bind position of a joint
RestPos(j) == IF j = ShoulderJnt THEN <<0, 0, 0>> ELSE IF j = ElbowJnt THEN <<0, 5, 5>> ELSE <<0, 0, 10>>

\* [1963-1965 SpaceSwitchTool.get_ik_to_fk_switch]
FkOf(j) == IF j = ShoulderJnt THEN FkShoulder ELSE IF j = ElbowJnt THEN FkElbow ELSE FkWrist

\* [2020-2020 SpaceSwitchTool.get_fk_to_ik_switch]
IkOn(val) == val[ArmSwitch] >= 1

\* [2017-2019 SpaceSwitchTool.get_fk_to_ik_switch] the chain hangs from the
\* FK shoulder control: its translation carries the shoulder, and in FK the
\* elbow and the wrist with it
JointT(val, j) == IF IkOn(val) /\ j = WristJnt THEN LocalT(val, IkWrist) ELSE IF IkOn(val) /\ j = ElbowJnt THEN LocalT(val, IkElbow) ELSE VAdd(RestPos(j), LocalT(val, FkShoulder))

\* [1963-1965 SpaceSwitchTool.get_ik_to_fk_switch]
JointR(val, j) == IF ~IkOn(val) THEN LocalR(val, FkOf(j)) ELSE IF j = WristJnt THEN LocalR(val, IkWrist) ELSE <<0, 0, 0>>

\* [355-355 get_world_matrix]
WorldT(val, n) == IF n \in Joints THEN JointT(val, n) ELSE VAdd(LocalT(val, n), ParentT(val, n))
\* [356-356 get_world_matrix]
WorldR(val, n) == IF n \in Joints THEN JointR(val, n) ELSE VAdd(LocalR(val, n), ParentR(val, n))

\* [353-362 get_world_matrix]
WorldPose(val, n) == [pos |-> WorldT(val, n), rot |-> WorldR(val, n)]

\* [1604-1605 SpaceSwitchTool.set_space_switch] world pose of n at frame t
PoseAt(keys, val, n, t) == WorldPose(ValuesAt(keys, val, t), n)

\* ------------------------------------------------------------------ state
VARIABLES
    time,            \* the scene's current frame
    val,             \* current value of every plug
    keys,            \* animation curve of every plug
    nodes,           \* nodes that exist in the scene
    attrs,           \* plugs that exist in the scene
    rotate_order,    \* rotate order of every node
    selection,       \* the scene's selection list
    playback,        \* playback range of the scene
    space_data,      \* SpaceSwitchTool._space_switch_data_dict
    ikfk_data,       \* SpaceSwitchTool._ikfk_switch_data_dict
    bake_mode,       \* checked button of _timeline_btnGrp
    ik_to_fk,        \* _ik_to_fk_radbtn is checked
    set_time_range,  \* _set_time_range_chkbx
    start_frame,     \* int(_start_frame_field.text()), as the switches read it
    end_frame,       \* int(_end_frame_field.text())
    fields,          \* the texts of the two fields, _start_frame and _end_frame
    panel,           \* the tab shown, the list widget, _file_list_items, _selected_item
    run,             \* what the last switch execution did
    pre,             \* the scene when the last switch execution started
    switches         \* number of switch executions so far

sceneVars == <<time, val, keys, nodes, attrs, rotate_order, selection, playback>>
uiVars == <<bake_mode, ik_to_fk, set_time_range, start_frame, end_frame, fields, panel>>
vars == <<time, val, keys, nodes, attrs, rotate_order, selection, playback, space_data, ikfk_data, bake_mode, ik_to_fk, set_time_range, start_frame, end_frame, fields, panel, run, pre, switches>>

\* ------------------------------------------------------- execution record
\* One handler run threads an execution record through the scene calls it
\* makes.  n counts the scene calls issued; the call with index failAt
\* raises (failAt = NoFail: no call raises); once raised, the remaining
\* statements of the handler are skipped.  log is the trace of the calls,
\* each tagged with the block of the handler that issued it.  The locals of
\* the handler (keyframes, matrixData, pos/rot, ...) are fields of the record;
\* seen holds the IK wrist control and the IK switch as get_fk_to_ik_switch
\* found and left them, reads lists the poses read (frame, block, number of
\* scene calls issued before), cap is the number of scene calls issued when a pose was last read, result
\* the button pressed in the rotate order message box and the number of scene
\* calls issued when it opened.
NoFail == -1

\* [341-362 get_world_matrix] (None, None)
NonePose == [pos |-> <<>>, rot |-> <<>>]

\* [1430-1430 SpaceSwitchTool.space_switch] the handler is entered
NewExec(failAt) ==
    [time |-> time, val |-> val, keys |-> keys, nodes |-> nodes, attrs |-> attrs,
     sel |-> selection, log |-> <<>>, n |-> 0, failAt |-> failAt,
     raised |-> FALSE, err |-> "", warns |-> <<>>, blk |-> "", started |-> FALSE,
     current_frame |-> time, keyframes |-> <<>>, ref_keys |-> <<>>,
     time_range |-> <<>>, matrixData |-> <<>>,
     reg |-> [pose |-> NonePose, end_pose |-> NonePose, prev_pose |-> NonePose, loc |-> NonePose, probe |-> NonePose],
     bound |-> {},
     data |-> [a |-> <<>>, b |-> <<>>, c |-> <<>>],
     orig |-> [shoulder_pos |-> <<>>, elbow_pos |-> <<>>, wrist_pos |-> <<>>, wrist_rot |-> <<>>, switch_value |-> 0],
     result |-> [button |-> "", at |-> 0],
     seen |-> [wrist_in |-> NonePose, wrist_out |-> NonePose, switch_in |-> 0, switch_out |-> 0, calls_in |-> 0, calls_out |-> 0, reads_in |-> 0],
     reads |-> <<>>, args |-> <<>>, cap |-> 0, undoOpen |-> 0, undoClose |-> 0, locks |-> 0, unlocks |-> 0]

\* [1603-1621 SpaceSwitchTool.set_space_switch] one scene call in the trace
Entry(e, op, plug, arg) == [op |-> op, plug |-> plug, arg |-> arg, at |-> e.time, blk |-> e.blk]

\* [1579-1582 SpaceSwitchTool.space_switch] an exception leaves the block
Raise(e, err) == IF e.raised THEN e ELSE [e EXCEPT !.raised = TRUE, !.err = err]

\* variant: the failing call is swallowed and the sequence goes on
Issue_resuming(e, entry, done) == IF e.raised THEN e ELSE IF e.n = e.failAt THEN [e EXCEPT !.n = e.n + 1] ELSE [done EXCEPT !.n = e.n + 1, !.log = Append(e.log, entry)]

\* [1429-1582 SpaceSwitchTool.space_switch] a scene call: skipped after a
\* raise, raising when it is the failing call
Issue(e, entry, done) == IF e.raised THEN e ELSE IF e.n = e.failAt THEN Raise(e, "scene") ELSE [done EXCEPT !.n = e.n + 1, !.log = Append(e.log, entry)]

\* [1429-1577 SpaceSwitchTool.space_switch] the block of the handler running
InBlock(e, b) == IF e.raised THEN e ELSE [e EXCEPT !.blk = b]

\* [329-338 double_warning]
double_warning(e, msg) == [e EXCEPT !.warns = Append(@, msg)]

\* [1604-1604 SpaceSwitchTool.set_space_switch] cmds.currentTime(t, edit=True):
\* every animated plug takes its curve value
currentTime_edit(e, t) == Issue(e, Entry(e, "currentTime", <<"time", "">>, <<t>>), [e EXCEPT !.time = t, !.val = ValuesAt(e.keys, e.val, t)])

\* [1610-1610 SpaceSwitchTool.set_space_switch] cmds.setAttr(plug, v)
setAttr(e, plug, v) == IF e.raised THEN e ELSE IF plug \notin e.attrs THEN Raise(e, "scene") ELSE Issue(e, Entry(e, "setAttr", plug, <<v>>), [e EXCEPT !.val[plug] = v])

\* [249-250 create_transform_keys] cmds.setKeyframe(plug, time=(t, t)): a key
\* holding the plug's current value
setKeyframe_time(e, plug, t) == IF e.raised THEN e ELSE IF plug \notin e.attrs THEN Raise(e, "scene") ELSE Issue(e, [op |-> "setKeyframe", plug |-> plug, arg |-> <<e.val[plug]>>, at |-> t, blk |-> e.blk], [e EXCEPT !.keys[plug] = SetKey(@, t, e.val[plug])])

\* [1611-1611 SpaceSwitchTool.set_space_switch] cmds.setKeyframe(plug)
setKeyframe(e, plug) == setKeyframe_time(e, plug, e.time)

\* [353-354 get_world_matrix] cmds.ls(ctl, type="transform")
IsTransform(e, n) == n \in e.nodes /\ nodeType(n) \in {"transform", "joint"}

\* [377-377 apply_world_matrix] cmds.xform(n, translation=pos, worldSpace=True)
xform_translation(e, n, pos) == IF e.raised THEN e ELSE IF ~IsTransform(e, n) \/ Len(pos) /= 3 THEN Raise(e, "scene") ELSE Issue(e, Entry(e, "xformT", <<n, "translate">>, pos), [e EXCEPT !.val[<<n, "translateX">>] = pos[1] - ParentT(e.val, n)[1], !.val[<<n, "translateY">>] = pos[2] - ParentT(e.val, n)[2], !.val[<<n, "translateZ">>] = pos[3] - ParentT(e.val, n)[3]])

\* [378-378 apply_world_matrix] cmds.xform(n, rotation=rot, worldSpace=True)
xform_rotation(e, n, rot) == IF e.raised THEN e ELSE IF ~IsTransform(e, n) \/ Len(rot) /= 3 THEN Raise(e, "scene") ELSE Issue(e, Entry(e, "xformR", <<n, "rotate">>, rot), [e EXCEPT !.val[<<n, "rotateX">>] = rot[1] - ParentR(e.val, n)[1], !.val[<<n, "rotateY">>] = rot[2] - ParentR(e.val, n)[2], !.val[<<n, "rotateZ">>] = rot[3] - ParentR(e.val, n)[3]])

\* [1444-1448 SpaceSwitchTool.space_switch] cmds.keyframe(ns, query=True,
\* timeChange=True), duplicates removed, sorted
keyframe_query(e, ns) == SortedSeq(UNION {KeyTimes(e.keys[p]) : p \in PlugsOf(SeqToSet(ns)) \cap DOMAIN e.keys})

\* [341-362 get_world_matrix]
get_world_matrix(e, ctl) == IF IsTransform(e, ctl) THEN WorldPose(e.val, ctl) ELSE NonePose

\* variant: the rotation is not written
apply_world_matrix_translation_only(e, ctl, pose) == IF IsTransform(e, ctl) THEN xform_translation(e, ctl, pose.pos) ELSE e

\* variant: the pose is added to the pose the control has
apply_world_matrix_relative(e, ctl, pose) == IF IsTransform(e, ctl) THEN xform_rotation(xform_translation(e, ctl, VAdd(WorldT(e.val, ctl), pose.pos)), ctl, pose.rot) ELSE e

\* variant: the rotation is written before the translation
apply_world_matrix_rotation_first(e, ctl, pose) == IF IsTransform(e, ctl) THEN xform_translation(xform_rotation(e, ctl, pose.rot), ctl, pose.pos) ELSE e

\* [365-378 apply_world_matrix]
apply_world_matrix(e, ctl, pose) == IF IsTransform(e, ctl) THEN xform_rotation(xform_translation(e, ctl, pose.pos), ctl, pose.rot) ELSE e

\* [1605-1605 SpaceSwitchTool.set_space_switch] pos, rot = get_world_matrix(ctl)
\* into the local r
SavePose(e, r, ctl) == IF e.raised THEN e ELSE [e EXCEPT !.reg[r] = get_world_matrix(e, ctl), !.bound = @ \cup {r}, !.cap = e.n, !.reads = Append(@, [at |-> e.time, n |-> e.n, blk |-> e.blk, node |-> ctl, pose |-> get_world_matrix(e, ctl)])]

\* [1619-1619 SpaceSwitchTool.set_space_switch] apply_world_matrix(ctl, pos, rot)
\* from the local r; reading a local never assigned raises
ApplySaved(e, r, ctl) == IF e.raised THEN e ELSE IF r \notin e.bound THEN Raise(e, "UnboundLocalError") ELSE apply_world_matrix(e, ctl, e.reg[r])

\* [192-209 filter_invalid_objects]
filter_invalid_objects(e, objects) == SelectSeq(objects, LAMBDA o : o /= "" /\ o \in e.nodes)

\* [247-250 create_transform_keys] the setKeyframe calls on one object, one
\* per flagged channel
RECURSIVE KeyChannels(_, _, _, _, _)
KeyChannels(e, obj, t, flags, i) == IF i > Len(Channels) THEN e ELSE KeyChannels(IF Channels[i] \in flags THEN setKeyframe_time(e, <<obj, Channels[i]>>, t) ELSE e, obj, t, flags, i + 1)

\* [246-250 create_transform_keys]
RECURSIVE KeyObjects(_, _, _, _, _)
KeyObjects(e, objs, i, t, flags) == IF i > Len(objs) THEN e ELSE KeyObjects(KeyChannels(e, objs[i], t, flags, 1), objs, i + 1, t, flags)

\* [234-234 create_transform_keys] filter_invalid_objects(objects) or
\* cmds.ls(selection=True)
KeyedObjects(e, objects) == IF filter_invalid_objects(e, objects) /= <<>> THEN filter_invalid_objects(e, objects) ELSE e.sel

\* [212-250 create_transform_keys] flags is the set of channels whose flag is
\* True
create_transform_keys(e, objects, flags) == IF e.raised THEN e ELSE IF KeyedObjects(e, objects) = <<>> THEN e ELSE KeyObjects(e, KeyedObjects(e, objects), 1, e.time, flags)

\* variant: the channels are not keyed at the previous frame
set_space_switch_no_hold(e, frame, ctl, source_space, source_value, target_space, target_value) ==
    LET e1 == currentTime_edit(e, frame)
        e2 == SavePose(e1, "pose", ctl)
        e3 == currentTime_edit(e2, frame - 1)
        e4 == setAttr(e3, source_space, source_value)
        e5 == setKeyframe(e4, source_space)
        e7 == currentTime_edit(e5, frame)
        e8 == setAttr(e7, target_space, target_value)
        e9 == setKeyframe(e8, target_space)
        e10 == ApplySaved(e9, "pose", ctl)
    IN  create_transform_keys(e10, <<ctl>>, TR)

\* variant: the pose of the frame is applied at the previous frame before
\* the channels are keyed there
set_space_switch_hold_applied(e, frame, ctl, source_space, source_value, target_space, target_value) ==
    LET e1 == currentTime_edit(e, frame)
        e2 == SavePose(e1, "pose", ctl)
        e3 == currentTime_edit(e2, frame - 1)
        e4 == setAttr(e3, source_space, source_value)
        e5 == setKeyframe(e4, source_space)
        e5a == ApplySaved(e5, "pose", ctl)
        e6 == create_transform_keys(e5a, <<ctl>>, TR)
        e7 == currentTime_edit(e6, frame)
        e8 == setAttr(e7, target_space, target_value)
        e9 == setKeyframe(e8, target_space)
        e10 == ApplySaved(e9, "pose", ctl)
    IN  create_transform_keys(e10, <<ctl>>, TR)

\* [1588-1621 SpaceSwitchTool.set_space_switch]
set_space_switch(e, frame, ctl, source_space, source_value, target_space, target_value) ==
    LET e1 == currentTime_edit(e, frame)
        e2 == SavePose(e1, "pose", ctl)
        e3 == currentTime_edit(e2, frame - 1)
        e4 == setAttr(e3, source_space, source_value)
        e5 == setKeyframe(e4, source_space)
        e6 == create_transform_keys(e5, <<ctl>>, TR)
        e7 == currentTime_edit(e6, frame)
        e8 == setAttr(e7, target_space, target_value)
        e9 == setKeyframe(e8, target_space)
        e10 == ApplySaved(e9, "pose", ctl)
    IN  create_transform_keys(e10, <<ctl>>, TR)

\* ------------------------------------------------------------ switch data
\* Entries of the switch dictionaries: a string (a node name, "" when
\* empty) or a list ([] when empty, [plug, value] when loaded).
\* [457-473 SpaceSwitchTool.__init__]
StrV(str) == [typ |-> "str", s |-> str, items |-> <<>>]
\* [457-473 SpaceSwitchTool.__init__]
ListV(items) == [typ |-> "list", s |-> "", items |-> items]

\* [1306-1307 SpaceSwitchTool.validate_switch_data]
SpaceKeys == {"mode", "target control", "source space", "target space"}
\* [1308-1308 SpaceSwitchTool.validate_switch_data]
SpaceAttrKeys == {"source space", "target space"}
\* [1311-1314 SpaceSwitchTool.validate_switch_data]
IkfkKeys == {"mode", "shoulder joint", "elbow joint", "wrist joint", "fk shoulder", "fk elbow", "fk wrist", "fk switch", "fk visibility", "ik elbow", "ik wrist", "ik switch", "ik visibility"}
\* [1315-1316 SpaceSwitchTool.validate_switch_data]
IkfkAttrKeys == {"fk switch", "ik switch", "fk visibility", "ik visibility"}

\* [1323-1324 SpaceSwitchTool.validate_switch_data] "if not value"
Empty(v) == IF v.typ = "str" THEN v.s = "" ELSE Len(v.items) = 0

\* variant: the existence of the node and of the attribute is not checked
ValidEntry_unchecked(key, v, attr_keys, ns, as) == ~Empty(v) /\ IF key \in attr_keys THEN v.typ = "list" /\ Len(v.items) = 2 ELSE v.typ = "str" /\ (key = "mode" => v.s \in {"space switch", "ikfk switch"})

\* [1322-1347 SpaceSwitchTool.validate_switch_data] the checks of one entry
ValidEntry(key, v, attr_keys, ns, as) == ~Empty(v) /\ IF key \in attr_keys THEN v.typ = "list" /\ Len(v.items) = 2 /\ v.items[1][1] \in ns /\ v.items[1] \in as ELSE v.typ = "str" /\ IF key = "mode" THEN v.s \in {"space switch", "ikfk switch"} ELSE v.s \in ns

\* [1290-1350 SpaceSwitchTool.validate_switch_data]
validate_switch_data(std_keys, attr_keys, data, ns, as) == DOMAIN data = std_keys /\ \A key \in DOMAIN data : ValidEntry(key, data[key], attr_keys, ns, as)

\* ------------------------------------------------------------ space_switch
\* [1444-1448 SpaceSwitchTool.space_switch] keyframes = cmds.keyframe(..)
QueryKeyframes(e, ns) == IF e.raised THEN e ELSE [e EXCEPT !.keyframes = keyframe_query(e, ns)]

\* variant: the keys are not restricted to the range of the fields
WindowKeys_unfiltered(keyframes, checked, range_start, range_end) == keyframes

\* [1452-1458 SpaceSwitchTool.space_switch] only the keys within the set range
WindowKeys(keyframes, checked, range_start, range_end) == IF checked THEN SelectSeq(keyframes, LAMBDA k : range_start <= k /\ k <= range_end) ELSE keyframes

\* [1451-1458 SpaceSwitchTool.space_switch]
SelectKeys(e, checked, range_start, range_end) == IF e.raised THEN e ELSE [e EXCEPT !.ref_keys = e.keyframes, !.keyframes = WindowKeys(e.keyframes, checked, range_start, range_end)]

\* [1460-1462 SpaceSwitchTool.space_switch]
NoKeysCheck(e) == IF e.raised THEN e ELSE IF e.keyframes = <<>> THEN Raise(double_warning(e, "No keys to bake!"), "NoKeys") ELSE e

\* [1470-1470 SpaceSwitchTool.space_switch] matrixData.append((pos, rot))
AppendPose(e, ctl) == IF e.raised THEN e ELSE [e EXCEPT !.matrixData = Append(@, get_world_matrix(e, ctl)), !.cap = e.n, !.reads = Append(@, [at |-> e.time, n |-> e.n, blk |-> e.blk, node |-> ctl, pose |-> get_world_matrix(e, ctl)])]

\* variant: a pass of the gathering loop that reads the pose without setting
\* the source space
CaptureStep_as_found(e, key, ctl, source_space, source_value) == AppendPose(currentTime_edit(e, key), ctl)

\* [1466-1470 SpaceSwitchTool.space_switch] one pass of the gathering loop
CaptureStep(e, key, ctl, source_space, source_value) ==
    LET e1 == currentTime_edit(e, key)
        e2 == setAttr(e1, source_space, source_value)
        e3 == setKeyframe(e2, source_space)
    IN  AppendPose(e3, ctl)

\* [1464-1470 SpaceSwitchTool.space_switch] for key in keyframes / time_range
RECURSIVE CaptureLoop(_, _, _, _, _, _)
CaptureLoop(e, over, i, ctl, source_space, source_value) == IF e.raised \/ i > Len(e[over]) THEN e ELSE CaptureLoop(CaptureStep(e, e[over][i], ctl, source_space, source_value), over, i + 1, ctl, source_space, source_value)

\* [1473-1481 SpaceSwitchTool.space_switch] check if closing swap will run
ClosingCapture(e, ctl) ==
    IF e.raised \/ ~(Len(e.keyframes) > 1 /\ Last(e.keyframes) < Last(e.ref_keys)) THEN e
    ELSE LET c1 == currentTime_edit(InBlock(e, "closing"), Last(e.keyframes))
             c2 == SavePose(c1, "end_pose", ctl)
             c3 == currentTime_edit(c2, Last(e.keyframes) - 1)
         IN  SavePose(c3, "prev_pose", ctl)

\* [1490-1491 SpaceSwitchTool.space_switch] keyframes[1:], matrixData[1:]
DropFirst(e, over) == IF e.raised THEN e ELSE [e EXCEPT ![over] = Tail(@), !.matrixData = Tail(@)]

\* [1516-1517 SpaceSwitchTool.space_switch] keyframes[:-1], matrixData[:-1]
DropLast(e, over) == IF e.raised THEN e ELSE [e EXCEPT ![over] = Front(@), !.matrixData = Front(@)]

\* [1484-1491 SpaceSwitchTool.space_switch] the switch at the first key
HeadSwitch(e, ctl, ss, sv, ts, tv) == IF e.raised \/ ~(e.keyframes[1] > e.ref_keys[1]) THEN e ELSE DropFirst(set_space_switch(InBlock(e, "head"), e.keyframes[1], ctl, ss, sv, ts, tv), "keyframes")

\* [1494-1517 SpaceSwitchTool.space_switch] flip target and source to close
TailSwitch(e, ctl, ss, sv, ts, tv) ==
    IF e.raised \/ ~(e.keyframes /= <<>> /\ Last(e.keyframes) < Last(e.ref_keys)) THEN e
    ELSE LET t1 == currentTime_edit(InBlock(e, "tail"), Last(e.keyframes))
             t2 == setAttr(t1, ss, sv)
             t3 == setKeyframe(t2, ss)
             t4 == ApplySaved(t3, "end_pose", ctl)
             t5 == create_transform_keys(t4, <<ctl>>, TR)
             t6 == currentTime_edit(t5, Last(e.keyframes) - 1)
             t7 == setAttr(t6, ts, tv)
             t8 == setKeyframe(t7, ts)
             t9 == ApplySaved(t8, "prev_pose", ctl)
             t10 == create_transform_keys(t9, <<ctl>>, TR)
         IN  DropLast(t10, "keyframes")

\* [1526-1527 SpaceSwitchTool.space_switch] pos, rot = matrixData[i]; apply
ApplyData(e, ctl, i) == IF e.raised THEN e ELSE apply_world_matrix(e, ctl, e.matrixData[i])

\* variant: a pass of the re-keying loop that sets the target space without
\* keying it
ApplyStep_target_unkeyed(e, key, i, ctl, target_space, target_value) ==
    LET e1 == currentTime_edit(e, key)
        e2 == setAttr(e1, target_space, target_value)
        e4 == ApplyData(e2, ctl, i)
    IN  create_transform_keys(e4, <<ctl>>, TR)

\* [1523-1530 SpaceSwitchTool.space_switch] one pass of the re-keying loop
ApplyStep(e, key, i, ctl, target_space, target_value) ==
    LET e1 == currentTime_edit(e, key)
        e2 == setAttr(e1, target_space, target_value)
        e3 == setKeyframe(e2, target_space)
        e4 == ApplyData(e3, ctl, i)
    IN  create_transform_keys(e4, <<ctl>>, TR)

\* [1522-1530 SpaceSwitchTool.space_switch] for i, key in enumerate(..)
RECURSIVE ApplyLoop(_, _, _, _, _, _)
ApplyLoop(e, over, i, ctl, target_space, target_value) == IF e.raised \/ i > Len(e[over]) THEN e ELSE ApplyLoop(ApplyStep(e, e[over][i], i, ctl, target_space, target_value), over, i + 1, ctl, target_space, target_value)

\* [1450-1530 SpaceSwitchTool.space_switch] 'bake keyframes'
BakeKeyframes(e, ctl, ss, sv, ts, tv, checked, range_start, range_end) ==
    LET b1 == SelectKeys(e, checked, range_start, range_end)
        b2 == NoKeysCheck(b1)
        b3 == CaptureLoop(InBlock(b2, "capture"), "keyframes", 1, ctl, ss, sv)
        b4 == ClosingCapture(b3, ctl)
        b5 == HeadSwitch(b4, ctl, ss, sv, ts, tv)
        b6 == TailSwitch(b5, ctl, ss, sv, ts, tv)
    IN  ApplyLoop(InBlock(b6, "interior"), "keyframes", 1, ctl, ts, tv)

\* [253-264 get_timeline_range]
get_timeline_range == <<playback.min, playback.max, playback.min - playback.max + 1>>

\* [1535-1540 SpaceSwitchTool.space_switch] time_range = range(..)
SetTimeRange(e, checked, range_start, range_end) == IF e.raised THEN e ELSE [e EXCEPT !.time_range = IF checked THEN RangeSeq(range_start, range_end) ELSE RangeSeq(get_timeline_range[1], get_timeline_range[2])]

\* [1552-1557 SpaceSwitchTool.space_switch] keyframes[0] < time_range[0]
EveryFrameHead(e, ctl, ss, sv, ts, tv) == IF e.raised THEN e ELSE IF e.keyframes = <<>> \/ e.time_range = <<>> THEN Raise(e, "IndexError") ELSE IF ~(e.keyframes[1] < e.time_range[1]) THEN e ELSE DropFirst(set_space_switch(InBlock(e, "head"), e.time_range[1], ctl, ss, sv, ts, tv), "time_range")

\* [1559-1564 SpaceSwitchTool.space_switch] keyframes[-1] > time_range[-1]
EveryFrameTail(e, ctl, ss, sv, ts, tv) == IF e.raised THEN e ELSE IF e.time_range = <<>> THEN Raise(e, "IndexError") ELSE IF ~(Last(e.keyframes) > Last(e.time_range)) THEN e ELSE DropLast(set_space_switch(InBlock(e, "tail"), Last(e.time_range), ctl, ts, tv, ss, sv), "time_range")

\* [1534-1574 SpaceSwitchTool.space_switch] 'bake every frame'
BakeEveryFrame(e, ctl, ss, sv, ts, tv, checked, range_start, range_end) ==
    LET f1 == SetTimeRange(e, checked, range_start, range_end)
        f2 == CaptureLoop(InBlock(f1, "capture"), "time_range", 1, ctl, ss, sv)
        f3 == EveryFrameHead(f2, ctl, ss, sv, ts, tv)
        f4 == EveryFrameTail(f3, ctl, ss, sv, ts, tv)
    IN  ApplyLoop(InBlock(f4, "interior"), "time_range", 1, ctl, ts, tv)

\* [1442-1577 SpaceSwitchTool.space_switch] the two baking modes, then the
\* return to the current frame
SpaceBake(e, ctl, ss, sv, ts, tv) == currentTime_edit(InBlock(IF bake_mode = "bakeKeyframes" THEN BakeKeyframes(QueryKeyframes(e, <<ctl>>), ctl, ss, sv, ts, tv, set_time_range, start_frame, end_frame) ELSE BakeEveryFrame(QueryKeyframes(e, <<ctl>>), ctl, ss, sv, ts, tv, set_time_range, start_frame, end_frame), "restore"), e.current_frame)

\* [1430-1577 SpaceSwitchTool.space_switch] the try block
SpaceSwitchBody(e, ctl, ss, sv, ts, tv) == IF bake_mode = "currentFrame" THEN set_space_switch(InBlock(e, "current"), e.current_frame, ctl, ss, sv, ts, tv) ELSE SpaceBake(e, ctl, ss, sv, ts, tv)

\* [1425-1426 SpaceSwitchTool.space_switch] undoInfo(openChunk), lock_viewport
OpenChunk(e) == [e EXCEPT !.started = TRUE, !.undoOpen = @ + 1, !.locks = @ + 1]

\* [1579-1582 SpaceSwitchTool.space_switch] except Exception
ExceptClause(e) == IF e.raised THEN double_warning(e, "There is an Error in try block!") ELSE e

\* variant: the clean-up runs only when the try block ends normally
FinallyClause_unless_raised(e) == IF e.raised THEN e ELSE [e EXCEPT !.unlocks = @ + 1, !.undoClose = @ + 1]

\* [1584-1586 SpaceSwitchTool.space_switch] finally: unlock_viewport,
\* undoInfo(closeChunk)
FinallyClause(e) == [e EXCEPT !.unlocks = @ + 1, !.undoClose = @ + 1]

\* [1406-1586 SpaceSwitchTool.space_switch]
space_switch(e) == IF ~validate_switch_data(SpaceKeys, SpaceAttrKeys, space_data, e.nodes, e.attrs) THEN double_warning(e, "Attributes and control are invalid!") ELSE FinallyClause(ExceptClause(SpaceSwitchBody(OpenChunk(e), space_data["target control"].s, space_data["source space"].items[1], space_data["source space"].items[2], space_data["target space"].items[1], space_data["target space"].items[2])))

\* -------------------------------------------------------------- ikfk_switch
\* [1643-1658 SpaceSwitchTool.ikfk_switch] a node entry of the dictionary
NodeOf(d, key) == d[key].s
\* [1649-1657 SpaceSwitchTool.ikfk_switch] the attribute of an entry
AttrOf(d, key) == d[key].items[1]
\* [1650-1658 SpaceSwitchTool.ikfk_switch] the value of an entry
ValueOf(d, key) == d[key].items[2]

\* [109-128 check_rotate_order]
check_rotate_order(source, target) == nodeType(source) \in {"transform", "joint"} /\ nodeType(target) \in {"transform", "joint"} /\ rotate_order[source] = rotate_order[target]

\* [1380-1384 SpaceSwitchTool._check_fk_rotate_order] rotate_order_flag
RotateOrderMismatch(d) == ~check_rotate_order(NodeOf(d, "shoulder joint"), NodeOf(d, "fk shoulder")) \/ ~check_rotate_order(NodeOf(d, "elbow joint"), NodeOf(d, "fk elbow")) \/ ~check_rotate_order(NodeOf(d, "wrist joint"), NodeOf(d, "fk wrist"))

\* the message box answers Yes whatever button is pressed
check_fk_rotate_order_always(d, answer) == RotateOrderMismatch(d) => answer \in {"Yes", "No"}

\* [1352-1395 SpaceSwitchTool._check_fk_rotate_order] answer is the button
\* the animator presses in the message box
check_fk_rotate_order(d, answer) == RotateOrderMismatch(d) => answer = "Yes"

\* [1386-1391 SpaceSwitchTool._check_fk_rotate_order] the message box opens
\* on a mismatch; result is the button pressed
RotateOrderDialog(e, d, answer) == IF RotateOrderMismatch(d) THEN [e EXCEPT !.warns = Append(@, "Inconsistency Warning!"), !.result = [button |-> answer, at |-> e.n]] ELSE e

\* [1670-1673 SpaceSwitchTool.ikfk_switch] ctls
SwitchControls(d, flag) == IF flag THEN <<NodeOf(d, "ik elbow"), NodeOf(d, "ik wrist")>> ELSE <<NodeOf(d, "fk shoulder"), NodeOf(d, "fk elbow"), NodeOf(d, "fk wrist")>>

\* [1955-1967 SpaceSwitchTool.get_ik_to_fk_switch]
get_ik_to_fk_switch(e, d) == IF e.raised THEN e ELSE [e EXCEPT !.data = [a |-> get_world_matrix(e, NodeOf(d, "shoulder joint")).rot, b |-> get_world_matrix(e, NodeOf(d, "elbow joint")).rot, c |-> get_world_matrix(e, NodeOf(d, "wrist joint")).rot]]

\* [1979-1979 SpaceSwitchTool.set_ik_to_fk_switch] "if prev_frame": prev is
\* <<>> for None, <<t>> for the frame t
Truthy(prev) == prev /= <<>> /\ prev[1] /= 0

\* [1980-1987 SpaceSwitchTool.set_ik_to_fk_switch] hold down the value
HoldFk(e, d, prev_frame) ==
    LET h1 == currentTime_edit(e, prev_frame)
        h2 == create_transform_keys(h1, <<NodeOf(d, "fk shoulder")>>, Rot)
        h3 == create_transform_keys(h2, <<NodeOf(d, "fk elbow")>>, Rot)
        h4 == create_transform_keys(h3, <<NodeOf(d, "fk wrist")>>, Rot)
        h5 == setKeyframe(h4, AttrOf(d, "fk switch"))
        h6 == setKeyframe(h5, AttrOf(d, "fk visibility"))
    IN  setKeyframe(h6, AttrOf(d, "ik visibility"))

\* variant: every translate and rotate channel of the FK control is keyed
RotateAndKey_all_channels(e, fk, slot) == IF e.raised THEN e ELSE create_transform_keys(xform_rotation(e, fk, e.data[slot]), <<fk>>, TR)

\* [2000-2002 SpaceSwitchTool.set_ik_to_fk_switch] apply in world space
RotateAndKey(e, fk, slot) == IF e.raised THEN e ELSE create_transform_keys(xform_rotation(e, fk, e.data[slot]), <<fk>>, Rot)

\* [1969-2002 SpaceSwitchTool.set_ik_to_fk_switch]
set_ik_to_fk_switch(e, d, frame, prev) ==
    LET s1 == currentTime_edit(IF Truthy(prev) THEN HoldFk(e, d, prev[1]) ELSE e, frame)
        s2 == setAttr(s1, AttrOf(d, "fk switch"), ValueOf(d, "fk switch"))
        s3 == setKeyframe(s2, AttrOf(d, "fk switch"))
        s4 == RotateAndKey(s3, NodeOf(d, "fk shoulder"), "a")
        s5 == RotateAndKey(s4, NodeOf(d, "fk elbow"), "b")
    IN  RotateAndKey(s5, NodeOf(d, "fk wrist"), "c")

\* [146-150 constrain_move_key] the locator takes the pose of the driver
PlaceLocator(e, driver) == IF e.raised THEN e ELSE [e EXCEPT !.reg.loc = get_world_matrix(e, driver)]

\* [153-155 constrain_move_key] the constraint moves the driven node onto the
\* locator
ConstrainTo(e, driven) == IF e.raised THEN e ELSE IF ~IsTransform(e, driven) \/ Len(e.reg.loc.pos) /= 3 THEN Raise(e, "scene") ELSE Issue(e, Entry(e, "parentConstraint", <<driven, "">>, e.reg.loc.pos), [e EXCEPT !.val[<<driven, "translateX">>] = e.reg.loc.pos[1], !.val[<<driven, "translateY">>] = e.reg.loc.pos[2], !.val[<<driven, "translateZ">>] = e.reg.loc.pos[3], !.val[<<driven, "rotateX">>] = e.reg.loc.rot[1], !.val[<<driven, "rotateY">>] = e.reg.loc.rot[2], !.val[<<driven, "rotateZ">>] = e.reg.loc.rot[3]])

\* [146-159 constrain_move_key] a call on the temporary locator
LocatorCall(e, op) == Issue(e, Entry(e, op, <<"temp", "">>, <<>>), e)

\* [131-160 constrain_move_key]
constrain_move_key(e, driver, driven) ==
    LET c1 == LocatorCall(e, "spaceLocator")
        c2 == LocatorCall(c1, "parent")
        c3 == LocatorCall(c2, "setAttr translate")
        c4 == LocatorCall(c3, "setAttr rotate")
        c5 == PlaceLocator(c4, driver)
        c6 == LocatorCall(c5, "parent world")
        c7 == ConstrainTo(c6, driven)
        c8 == SavePose(c7, "probe", driven)
    IN  LocatorCall(c8, "delete")

\* [2017-2020 SpaceSwitchTool.get_fk_to_ik_switch] the values read on entry
SaveOrig(e, d) == IF e.raised THEN e ELSE [e EXCEPT !.orig = [shoulder_pos |-> get_world_matrix(e, NodeOf(d, "shoulder joint")).pos, elbow_pos |-> get_world_matrix(e, NodeOf(d, "elbow joint")).pos, wrist_pos |-> get_world_matrix(e, NodeOf(d, "wrist joint")).pos, wrist_rot |-> get_world_matrix(e, NodeOf(d, "wrist joint")).rot, switch_value |-> e.val[AttrOf(d, "ik switch")]]]

\* [2037-2037 SpaceSwitchTool.get_fk_to_ik_switch] restore original matrix
RestoreMatrix(e, ik_wrist) == IF e.raised THEN e ELSE apply_world_matrix(e, ik_wrist, [pos |-> e.orig.wrist_pos, rot |-> e.orig.wrist_rot])

\* variant: the switch attribute is left at the value set for the probe
RestoreSwitch_skipped(e, attr) == e

\* [2038-2038 SpaceSwitchTool.get_fk_to_ik_switch]
RestoreSwitch(e, attr) == IF e.raised THEN e ELSE setAttr(e, attr, e.orig.switch_value)

\* [2044-2045 SpaceSwitchTool.get_fk_to_ik_switch] the bind positions keep
\* (wrist - shoulder) even, so the half is exact
midpoint_vector(S, W) == [i \in 1..3 |-> (W[i] - S[i]) \div 2 + S[i]]

\* the pole pushed out by two elbow offsets instead of four
new_elbow_pos_doubled(S, E, W) == [i \in 1..3 |-> (E[i] - midpoint_vector(S, W)[i]) * 2 + midpoint_vector(S, W)[i]]

\* the pole pushed out from the middle of origin and wrist
new_elbow_pos_from_origin(S, E, W) == [i \in 1..3 |-> (E[i] - W[i] \div 2) * 4 + W[i] \div 2]

\* [2041-2048 SpaceSwitchTool.get_fk_to_ik_switch] the pole position
new_elbow_pos(S, E, W) == [i \in 1..3 |-> (E[i] - midpoint_vector(S, W)[i]) * 4 + midpoint_vector(S, W)[i]]

\* [2040-2050 SpaceSwitchTool.get_fk_to_ik_switch] the values returned
ReturnIkData(e) == IF e.raised THEN e ELSE [e EXCEPT !.data = [a |-> e.reg.probe.pos, b |-> e.reg.probe.rot, c |-> new_elbow_pos(e.orig.shoulder_pos, e.orig.elbow_pos, e.orig.wrist_pos)]]

\* observation: the IK wrist control and the IK switch on entry
ObserveEntry(e, d) == IF e.raised THEN e ELSE [e EXCEPT !.seen.wrist_in = WorldPose(e.val, NodeOf(d, "ik wrist")), !.seen.switch_in = e.val[AttrOf(d, "ik switch")], !.seen.calls_in = e.n, !.seen.reads_in = Len(e.reads)]

\* observation: the IK wrist control and the IK switch on return
ObserveExit(e, d) == IF e.raised THEN e ELSE [e EXCEPT !.seen.wrist_out = WorldPose(e.val, NodeOf(d, "ik wrist")), !.seen.switch_out = e.val[AttrOf(d, "ik switch")], !.seen.calls_out = e.n]

\* variant: one probe, whose pose is returned
get_fk_to_ik_switch_single_probe(e, d) ==
    LET g0 == ObserveEntry(e, d)
        g1 == SaveOrig(g0, d)
        g2 == constrain_move_key(g1, NodeOf(d, "wrist joint"), NodeOf(d, "ik wrist"))
        g6 == RestoreMatrix(g2, NodeOf(d, "ik wrist"))
        g7 == RestoreSwitch(g6, AttrOf(d, "ik switch"))
        g8 == ReturnIkData(g7)
    IN  ObserveExit(g8, d)

\* [2004-2050 SpaceSwitchTool.get_fk_to_ik_switch]
get_fk_to_ik_switch(e, d) ==
    LET g0 == ObserveEntry(e, d)
        g1 == SaveOrig(g0, d)
        g2 == constrain_move_key(g1, NodeOf(d, "wrist joint"), NodeOf(d, "ik wrist"))
        g3 == setAttr(g2, AttrOf(d, "ik switch"), ValueOf(d, "ik switch"))
        g4 == ApplySaved(g3, "probe", NodeOf(d, "ik wrist"))
        g5 == constrain_move_key(g4, NodeOf(d, "wrist joint"), NodeOf(d, "ik wrist"))
        g6 == RestoreMatrix(g5, NodeOf(d, "ik wrist"))
        g7 == RestoreSwitch(g6, AttrOf(d, "ik switch"))
        g8 == ReturnIkData(g7)
    IN  ObserveExit(g8, d)

\* [2067-2076 SpaceSwitchTool.set_fk_to_ik_switch] hold down the value
HoldIk(e, d, prev_frame) ==
    LET h1 == currentTime_edit(e, prev_frame)
        h2 == create_transform_keys(h1, <<NodeOf(d, "ik wrist")>>, TR)
        h3 == create_transform_keys(h2, <<NodeOf(d, "ik elbow")>>, Trans)
        h4 == setKeyframe(h3, AttrOf(d, "ik switch"))
        h5 == setKeyframe(h4, AttrOf(d, "ik visibility"))
    IN  setKeyframe(h5, AttrOf(d, "fk visibility"))

\* [2088-2088 SpaceSwitchTool.set_fk_to_ik_switch] process wrist
ApplyWrist(e, ik_wrist) == IF e.raised THEN e ELSE apply_world_matrix(e, ik_wrist, [pos |-> e.data.a, rot |-> e.data.b])

\* [2094-2094 SpaceSwitchTool.set_fk_to_ik_switch] process elbow
MoveElbow(e, ik_elbow) == IF e.raised THEN e ELSE xform_translation(e, ik_elbow, e.data.c)

\* [2052-2096 SpaceSwitchTool.set_fk_to_ik_switch]
set_fk_to_ik_switch(e, d, frame, prev) ==
    LET s1 == currentTime_edit(IF Truthy(prev) THEN HoldIk(e, d, prev[1]) ELSE e, frame)
        s2 == setAttr(s1, AttrOf(d, "ik switch"), ValueOf(d, "ik switch"))
        s3 == setKeyframe(s2, AttrOf(d, "ik switch"))
        s4 == ApplyWrist(s3, NodeOf(d, "ik wrist"))
        s5 == create_transform_keys(s4, <<NodeOf(d, "ik wrist")>>, TR)
        s6 == MoveElbow(s5, NodeOf(d, "ik elbow"))
    IN  create_transform_keys(s6, <<NodeOf(d, "ik elbow")>>, Trans)

\* [2098-2120 SpaceSwitchTool.get_ikfk_data]
get_ikfk_data(e, flag, d) == IF flag THEN get_ik_to_fk_switch(e, d) ELSE get_fk_to_ik_switch(e, d)

\* [2122-2153 SpaceSwitchTool.set_ikfk_switch]
set_ikfk_switch(e, flag, d, frame, prev) == IF flag THEN set_ik_to_fk_switch(get_ik_to_fk_switch(e, d), d, frame, prev) ELSE set_fk_to_ik_switch(get_fk_to_ik_switch(e, d), d, frame, prev)

\* [1738-1738 SpaceSwitchTool.ikfk_switch] matrixData.append(data)
AppendData(e) == IF e.raised THEN e ELSE [e EXCEPT !.matrixData = Append(@, e.data)]

\* [1730-1738 SpaceSwitchTool.ikfk_switch] for key in keyframes
RECURSIVE IkfkCaptureLoop(_, _, _, _)
IkfkCaptureLoop(e, i, flag, d) == IF e.raised \/ i > Len(e.keyframes) THEN e ELSE IkfkCaptureLoop(AppendData(get_ikfk_data(currentTime_edit(e, e.keyframes[i]), flag, d)), i + 1, flag, d)

\* [1723-1726 SpaceSwitchTool.ikfk_switch] the empty check, then the
\* gathering loop, then the return of line 1748
IkfkGather(e, flag, d) == IF e.keyframes = <<>> THEN double_warning(e, "No keys to bake!") ELSE IkfkCaptureLoop(InBlock(e, "capture"), 1, flag, d)

\* [1713-1748 SpaceSwitchTool.ikfk_switch] 'bake keyframes'
IkfkBakeKeyframes(e, flag, d) == IkfkGather(SelectKeys(e, set_time_range, start_frame, end_frame), flag, d)

\* [1859-1888 SpaceSwitchTool.ikfk_switch] 'bake every frame': the gathering
\* loop runs over the keyframes, then the return of line 1888
IkfkBakeEveryFrame(e, flag, d) == IkfkCaptureLoop(InBlock(SetTimeRange(e, set_time_range, start_frame, end_frame), "capture"), 1, flag, d)

\* [1694-1944 SpaceSwitchTool.ikfk_switch] the statements after the checks
IkfkSwitchBody(e, flag, d) == IF bake_mode = "currentFrame" THEN set_ikfk_switch(InBlock(e, "current"), flag, d, e.current_frame, <<e.current_frame - 1>>) ELSE IF bake_mode = "bakeKeyframes" THEN IkfkBakeKeyframes(QueryKeyframes(e, SwitchControls(d, flag)), flag, d) ELSE IkfkBakeEveryFrame(QueryKeyframes(e, SwitchControls(d, flag)), flag, d)

\* [1689-1693 SpaceSwitchTool.ikfk_switch] the checks are passed; the undo
\* chunk and the viewport lock are commented out
PassChecks(e) == [e EXCEPT !.started = TRUE]

\* [1662-1670 SpaceSwitchTool.ikfk_switch] ik to fk: the operation is
\* forfeited on the answer No
IkToFkSwitch(e, d, answer) == IF ~check_fk_rotate_order(d, answer) THEN e ELSE IkfkSwitchBody(PassChecks(e), TRUE, d)

\* [1623-1953 SpaceSwitchTool.ikfk_switch]
ikfk_switch(e, answer) == IF ~validate_switch_data(IkfkKeys, IkfkAttrKeys, ikfk_data, e.nodes, e.attrs) THEN double_warning(e, "Either joints, controls or attributes loaded are invalid!") ELSE IF ik_to_fk THEN IkToFkSwitch(RotateOrderDialog(e, ikfk_data, answer), ikfk_data, answer) ELSE IkfkSwitchBody(PassChecks(e), FALSE, ikfk_data)

\* ------------------------------------------------------------- the actions
\* observation: what an execution did (its trace, its warnings, its counts)
RunOf(op, e) == [op |-> op, log |-> e.log, raised |-> e.raised, err |-> e.err, warns |-> e.warns, started |-> e.started, undoOpen |-> e.undoOpen, undoClose |-> e.undoClose, locks |-> e.locks, unlocks |-> e.unlocks, failAt |-> e.failAt, data |-> e.data, orig |-> e.orig, cap |-> e.cap, result |-> e.result, bound |-> e.bound, reads |-> e.reads, seen |-> e.seen, args |-> e.args]

\* observation: no execution yet
NoRun == [op |-> "none", log |-> <<>>, raised |-> FALSE, err |-> "", warns |-> <<>>, started |-> FALSE, undoOpen |-> 0, undoClose |-> 0, locks |-> 0, unlocks |-> 0, failAt |-> NoFail, data |-> [a |-> <<>>, b |-> <<>>, c |-> <<>>], orig |-> [shoulder_pos |-> <<>>, elbow_pos |-> <<>>, wrist_pos |-> <<>>, wrist_rot |-> <<>>, switch_value |-> 0], cap |-> 0, result |-> [button |-> "", at |-> 0], bound |-> {}, reads |-> <<>>, seen |-> [wrist_in |-> NonePose, wrist_out |-> NonePose, switch_in |-> 0, switch_out |-> 0, calls_in |-> 0, calls_out |-> 0, reads_in |-> 0], args |-> <<>>]

\* observation: the scene a handler is entered in; again: the execution
\* follows another
Snapshot == [time |-> time, val |-> val, keys |-> keys, again |-> run.op /= "none", op |-> run.op, raised |-> run.raised]

\* observation: no handler entered yet
NoSnapshot == [time |-> 0, val |-> val, keys |-> keys, again |-> FALSE, op |-> "none", raised |-> FALSE]

\* [1397-1404 SpaceSwitchTool.execute_switch] the scene after an execution
Commit(op, e) ==
    /\ time' = e.time
    /\ val' = e.val
    /\ keys' = e.keys
    /\ run' = RunOf(op, e)
    /\ pre' = Snapshot
    /\ switches' = switches + 1
    /\ UNCHANGED <<nodes, attrs, rotate_order, selection, playback, space_data, ikfk_data, uiVars>>

\* [1401-1402 SpaceSwitchTool.execute_switch] on the space switch tab
SpaceSwitch ==
    /\ switches < MaxSwitches
    /\ Commit("space", space_switch(NewExec(NoFail)))

\* [1429-1582 SpaceSwitchTool.space_switch] the first execution, with the
\* scene call of index f raising (f = NoFail: none)
SpaceSwitchFault ==
    /\ switches = 0
    /\ \E f \in NoFail..(space_switch(NewExec(NoFail)).n - 1) : Commit("space", space_switch(NewExec(f)))

\* [1403-1404 SpaceSwitchTool.execute_switch] on the ik/fk tab; answer is the
\* button pressed if the rotate order message box opens
IkfkSwitch(answer) ==
    /\ switches < MaxSwitches
    /\ Commit("ikfk", ikfk_switch(NewExec(NoFail), answer))

\* [457-460 SpaceSwitchTool.__init__]
SpaceDict(ctl, source, target) == [k \in SpaceKeys |-> CASE k = "mode" -> StrV("space switch") [] k = "target control" -> StrV(ctl) [] k = "source space" -> ListV(source) [] k = "target space" -> ListV(target)]

\* [461-473 SpaceSwitchTool.__init__]
IkfkDict(loaded) == [k \in IkfkKeys |-> CASE k = "mode" -> StrV("ikfk switch") [] k = "shoulder joint" -> StrV(IF loaded THEN ShoulderJnt ELSE "") [] k = "elbow joint" -> StrV(IF loaded THEN ElbowJnt ELSE "") [] k = "wrist joint" -> StrV(IF loaded THEN WristJnt ELSE "") [] k = "fk shoulder" -> StrV(IF loaded THEN FkShoulder ELSE "") [] k = "fk elbow" -> StrV(IF loaded THEN FkElbow ELSE "") [] k = "fk wrist" -> StrV(IF loaded THEN FkWrist ELSE "") [] k = "ik elbow" -> StrV(IF loaded THEN IkElbow ELSE "") [] k = "ik wrist" -> StrV(IF loaded THEN IkWrist ELSE "") [] k = "fk switch" -> ListV(IF loaded THEN <<ArmSwitch, 0>> ELSE <<>>) [] k = "ik switch" -> ListV(IF loaded THEN <<ArmSwitch, 1>> ELSE <<>>) [] k = "fk visibility" -> ListV(IF loaded THEN <<FkVis, 1>> ELSE <<>>) [] k = "ik visibility" -> ListV(IF loaded THEN <<IkVis, 1>> ELSE <<>>)]

\* [1045-1050 SpaceSwitchTool._load_switch_data] the space-switch files the
\* animator may open
SpacePresets == {SpaceDict(Ctl, <<SpaceA, sv>>, <<tp, tv>>) : sv \in 0..MaxSpaceValue, tp \in SpacePlugs, tv \in 0..MaxSpaceValue}

\* [1045-1050 SpaceSwitchTool._load_switch_data] the file opened on the tool
\* as a whole: from space A at 0 to space A at MaxSpaceValue
ToolPresets == {SpaceDict(Ctl, <<SpaceA, 0>>, <<SpaceA, MaxSpaceValue>>)}

\* [1032-1064 SpaceSwitchTool._load_switch_data] on the space switch tab
LoadSwitchData(data) ==
    /\ switches = 0
    /\ validate_switch_data(SpaceKeys, SpaceAttrKeys, data, nodes, attrs)
    /\ space_data' = data
    /\ UNCHANGED <<sceneVars, ikfk_data, uiVars, run, pre, switches>>

\* [1066-1071 SpaceSwitchTool._load_switch_data] on the ik/fk tab
LoadIkfkData(data) ==
    /\ switches = 0
    /\ validate_switch_data(IkfkKeys, IkfkAttrKeys, data, nodes, attrs)
    /\ ikfk_data' = data
    /\ UNCHANGED <<sceneVars, space_data, uiVars, run, pre, switches>>

\* [639-647 SpaceSwitchTool._set_widgets] a click on one of the three buttons
\* of _timeline_btnGrp
SetBakeMode(m) ==
    /\ switches = 0
    /\ bake_mode' = m
    /\ UNCHANGED <<sceneVars, space_data, ikfk_data, ik_to_fk, set_time_range, start_frame, end_frame, fields, panel, run, pre, switches>>

\* [635-637 SpaceSwitchTool._set_widgets] a click on _ik_to_fk_radbtn or
\* _fk_to_ik_radbtn
SetDirection(flag) ==
    /\ switches = 0
    /\ ik_to_fk' = flag
    /\ UNCHANGED <<sceneVars, space_data, ikfk_data, bake_mode, set_time_range, start_frame, end_frame, fields, panel, run, pre, switches>>

\* [1082-1086 SpaceSwitchTool._toggle_time_range] _set_time_range_chkbx clicked
ToggleTimeRange ==
    /\ switches = 0
    /\ set_time_range' = ~set_time_range
    /\ UNCHANGED <<sceneVars, space_data, ikfk_data, bake_mode, ik_to_fk, start_frame, end_frame, fields, panel, run, pre, switches>>

\* the characters of a number
Digits == <<"0", "1", "2", "3", "4", "5", "6", "7", "8", "9">>

\* the value of a digit
DigitOf(c) == CHOOSE d \in 0..9 : Digits[d + 1] = c

\* int() of a text of digits
RECURSIVE NatOf(_)
NatOf(text) == IF text = <<>> THEN 0 ELSE 10 * NatOf(Front(text)) + DigitOf(Last(text))

\* [1099-1099 SpaceSwitchTool._set_start_frame] int(value_str): a text is a
\* sequence of characters, digits after an optional sign
int_of(text) == IF text[1] = "-" THEN 0 - NatOf(Tail(text)) ELSE NatOf(text)

\* str() of a natural number
RECURSIVE TextOfNat(_)
TextOfNat(n) == IF n < 10 THEN <<Digits[n + 1]>> ELSE Append(TextOfNat(n \div 10), Digits[(n % 10) + 1])

\* [1100-1100 SpaceSwitchTool._set_start_frame] str(int(value_str) + 1)
str_of(n) == IF n < 0 THEN <<"-">> \o TextOfNat(0 - n) ELSE TextOfNat(n)

\* variant: the start frame is left as it is when the end frame is typed
\* at or below it
SetEndFrame_unadjusted(text) ==
    /\ switches = 0
    /\ set_time_range
    /\ fields' = IF text = <<>> THEN [fields EXCEPT !.end_text = fields.end_stored] ELSE [fields EXCEPT !.end_text = text, !.end_stored = text, !.edited = TRUE]
    /\ start_frame' = int_of(fields'.start_text)
    /\ end_frame' = int_of(fields'.end_text)
    /\ UNCHANGED <<sceneVars, space_data, ikfk_data, bake_mode, ik_to_fk, set_time_range, panel, run, pre, switches>>

\* [1088-1104 SpaceSwitchTool._set_start_frame] editingFinished with the
\* text typed into the field, which is enabled while the box is checked
SetStartFrame(text) ==
    /\ switches = 0
    /\ set_time_range
    /\ fields' = IF text = <<>> THEN [fields EXCEPT !.start_text = fields.start_stored] ELSE IF int_of(text) >= int_of(fields.end_stored) THEN [fields EXCEPT !.start_text = text, !.start_stored = text, !.end_text = str_of(int_of(text) + 1), !.end_stored = str_of(int_of(text) + 1), !.edited = TRUE] ELSE [fields EXCEPT !.start_text = text, !.start_stored = text, !.edited = TRUE]
    /\ start_frame' = int_of(fields'.start_text)
    /\ end_frame' = int_of(fields'.end_text)
    /\ UNCHANGED <<sceneVars, space_data, ikfk_data, bake_mode, ik_to_fk, set_time_range, panel, run, pre, switches>>

\* [1106-1122 SpaceSwitchTool._set_end_frame] editingFinished with the text
\* typed into the field
SetEndFrame(text) ==
    /\ switches = 0
    /\ set_time_range
    /\ fields' = IF text = <<>> THEN [fields EXCEPT !.end_text = fields.end_stored] ELSE IF int_of(text) <= int_of(fields.start_stored) THEN [fields EXCEPT !.end_text = text, !.end_stored = text, !.start_text = str_of(int_of(text) - 1), !.start_stored = str_of(int_of(text) - 1), !.edited = TRUE] ELSE [fields EXCEPT !.end_text = text, !.end_stored = text, !.edited = TRUE]
    /\ start_frame' = int_of(fields'.start_text)
    /\ end_frame' = int_of(fields'.end_text)
    /\ UNCHANGED <<sceneVars, space_data, ikfk_data, bake_mode, ik_to_fk, set_time_range, panel, run, pre, switches>>

\* [1329-1330 SpaceSwitchTool.validate_switch_data] the animator deletes a
\* node of the scene
DeleteNode(n) ==
    /\ switches = 0
    /\ n \in nodes
    /\ Cardinality(nodes) + 1 >= Cardinality(SpaceRigNodes \cup ArmRigNodes)
    /\ nodes' = nodes \ {n}
    /\ attrs' = attrs \ NodePlugs(n)
    /\ UNCHANGED <<time, val, keys, rotate_order, selection, playback, space_data, ikfk_data, uiVars, run, pre, switches>>

\* [1332-1333 SpaceSwitchTool.validate_switch_data] the animator deletes an
\* attribute
DeleteAttr(p) ==
    /\ switches = 0
    /\ p \in attrs
    /\ nodes = SpaceRigNodes \cup ArmRigNodes
    /\ attrs' = attrs \ {p}
    /\ UNCHANGED <<time, val, keys, nodes, rotate_order, selection, playback, space_data, ikfk_data, uiVars, run, pre, switches>>

\* ------------------------------------------------------------------- Init
\* [242-244 create_transform_keys]
ChannelIndex(c) == CHOOSE i \in 1..Len(Channels) : Channels[i] = c

\* [1444-1444 SpaceSwitchTool.space_switch] the curves of the controls of the
\* nodes ns, animated at the frames K
InitKeys(ns, K) == [p \in PlugsOf(ns) |-> IF p[1] \in Controls /\ p[2] \in TR THEN [k \in K |-> 2 * ChannelIndex(p[2]) * (k + 1)] ELSE NoCurve]

\* [1430-1435 SpaceSwitchTool.space_switch] the values of the plugs without
\* a curve: the spaces at 0, the arm in IK
InitStatic(ns) == [p \in PlugsOf(ns) |-> IF p \in SpacePlugs THEN 0 ELSE IF p \in ArmPlugs THEN 1 ELSE IF p[2] \in TR THEN 2 * ChannelIndex(p[2]) ELSE 1]

\* [455-455 SpaceSwitchTool.__init__] _selected_item = None
NoItem == [kind |-> "none", name |-> ""]

\* [435-559 SpaceSwitchTool.__init__] and [561-648 _set_widgets]
InitUI ==
    /\ space_data = SpaceDict("", <<>>, <<>>)
    /\ ikfk_data = IkfkDict(FALSE)
    /\ bake_mode = "currentFrame"
    /\ ik_to_fk = TRUE
    /\ set_time_range = FALSE
    /\ start_frame = playback.min
    /\ end_frame = playback.max
    /\ fields = [start_text |-> str_of(playback.min), start_stored |-> str_of(playback.min), end_text |-> str_of(playback.max), end_stored |-> str_of(playback.max), edited |-> FALSE]
    /\ panel = [tab |-> "main", items |-> <<>>, file_list_items |-> {}, selected_item |-> NoItem, current |-> "", sel |-> FALSE]
    /\ run = NoRun
    /\ pre = NoSnapshot
    /\ switches = 0

\* [1430-1430 SpaceSwitchTool.space_switch] the scenes a behaviour may start
\* in: the nodes ns, the controls animated at a set K of frames of Ks, the
\* current frame in Ts, every curve evaluated at the current frame
InitScene(ns, Ks, Ts, Orders) ==
    /\ time \in Ts
    /\ \E K \in Ks :
          /\ keys = InitKeys(ns, K)
          /\ val = ValuesAt(InitKeys(ns, K), InitStatic(ns), time)
    /\ nodes = ns
    /\ attrs = PlugsOf(ns)
    /\ \E o \in Orders : rotate_order = [n \in ns |-> IF n = FkElbow THEN o ELSE "xyz"]
    /\ selection = <<>>
    /\ playback = [min |-> 0, max |-> MaxFrame]

\* the dialog opened on a scene holding the space-switch rig
\* [435-559 SpaceSwitchTool.__init__]
Init ==
    /\ InitScene(SpaceRigNodes, SUBSET (0..MaxFrame), 0..MaxFrame, {"xyz"})
    /\ InitUI

\* the frame numbers typed into the range fields
FrameInputs == 1..(MaxFrame - 1)

\* [639-647 SpaceSwitchTool._set_widgets]
BakeModes == {"currentFrame", "bakeKeyframes", "everyFrame"}

\* [788-889 SpaceSwitchTool._connect_signals]
Next ==
    \/ \E d \in SpacePresets : LoadSwitchData(d)
    \/ \E m \in BakeModes : SetBakeMode(m)
    \/ ToggleTimeRange
    \/ \E v \in FrameInputs : SetStartFrame(str_of(v))
    \/ \E v \in FrameInputs : SetEndFrame(str_of(v))
    \/ SpaceSwitch

\* the behaviours of the dialog on the space-switch rig
Spec == Init /\ [][Next]_vars

\* the dialog opened on a scene holding both rigs, the controls without keys
\* or keyed on the first frames or on every frame of the timeline
ToolKeySets == {{}, 0..1, 0..MaxFrame}

\* the initial states of SpecTool
InitTool ==
    /\ InitScene(SpaceRigNodes \cup ArmRigNodes, ToolKeySets, {1}, {"xyz", "zxy"})
    /\ InitUI

\* the steps of SpecTool
NextTool ==
    \/ \E d \in ToolPresets : LoadSwitchData(d)
    \/ LoadIkfkData(IkfkDict(TRUE))
    \/ \E m \in BakeModes : SetBakeMode(m)
    \/ \E flag \in BOOLEAN : SetDirection(flag)
    \/ ToggleTimeRange
    \/ \E v \in FrameInputs : SetStartFrame(str_of(v))
    \/ \E n \in {Ctl, FkElbow} : DeleteNode(n)
    \/ \E p \in {SpaceA, IkVis} : DeleteAttr(p)
    \/ SpaceSwitch
    \/ \E answer \in {"Yes", "No"} : IkfkSwitch(answer)

\* the behaviours of the dialog on both rigs
SpecTool == InitTool /\ [][NextTool]_vars

\* the dialog opened on the space-switch rig, one execution with a scene call
\* raising
FaultKeySets == {{}, {0, MaxFrame}, 0..MaxFrame}

\* the initial states of SpecFault
InitFault ==
    /\ InitScene(SpaceRigNodes, FaultKeySets, {1}, {"xyz"})
    /\ InitUI

\* the steps of SpecFault
NextFault ==
    \/ \E d \in ToolPresets : LoadSwitchData(d)
    \/ \E m \in BakeModes : SetBakeMode(m)
    \/ ToggleTimeRange
    \/ \E v \in FrameInputs : SetStartFrame(str_of(v))
    \/ \E v \in FrameInputs : SetEndFrame(str_of(v))
    \/ SpaceSwitchFault

\* the behaviours with one scene call raising
SpecFault == InitFault /\ [][NextFault]_vars

\* the dialog opened on a scene holding the arm rig: the controls without
\* keys, keyed on one frame, on the two ends or on every frame of the timeline
ArmKeySets == {{}, {1}, {0, MaxFrame}, 0..MaxFrame}

\* [2017-2019 SpaceSwitchTool.get_fk_to_ik_switch] the controls at the bind
\* pose: every translate and rotate channel at zero
BindPose(ns) == [p \in PlugsOf(ns) |-> IF p[2] \in TR THEN 0 ELSE 1]

\* the scenes of the arm: the blend attribute at 0 (FK) or 1 (IK), the
\* unkeyed controls at the bind pose or displaced
\* the initial states of SpecArm
InitArm ==
    /\ time \in 0..MaxFrame
    /\ \E K \in ArmKeySets, m \in 0..1, rest \in {BindPose(ArmRigNodes), InitStatic(ArmRigNodes)} :
          /\ keys = InitKeys(ArmRigNodes, K)
          /\ val = [ValuesAt(InitKeys(ArmRigNodes, K), rest, time) EXCEPT ![ArmSwitch] = m]
    /\ nodes = ArmRigNodes
    /\ attrs = PlugsOf(ArmRigNodes)
    /\ \E o \in {"xyz", "zxy"} : rotate_order = [n \in ArmRigNodes |-> IF n = FkElbow THEN o ELSE "xyz"]
    /\ selection = <<>>
    /\ playback = [min |-> 0, max |-> MaxFrame]
    /\ InitUI

\* the steps of SpecArm
NextArm ==
    \/ LoadIkfkData(IkfkDict(TRUE))
    \/ \E m \in BakeModes : SetBakeMode(m)
    \/ \E flag \in BOOLEAN : SetDirection(flag)
    \/ ToggleTimeRange
    \/ \E v \in FrameInputs : SetStartFrame(str_of(v))
    \/ \E v \in FrameInputs : SetEndFrame(str_of(v))
    \/ \E answer \in {"Yes", "No"} : IkfkSwitch(answer)

\* the behaviours of the dialog on the arm rig
SpecArm == InitArm /\ [][NextArm]_vars

\* the texts the validator lets the
\* animator leave in a range field: nothing, a number, a number after a zero
FieldTexts == {<<>>} \cup {str_of(v) : v \in -1..(MaxFrame + 1)} \cup {<<"0">> \o str_of(v) : v \in 0..(MaxFrame + 1)}

\* the dialog opened on the unkeyed space-switch rig
\* the initial states of SpecFields
InitFields ==
    /\ InitScene(SpaceRigNodes, {{}}, {0}, {"xyz"})
    /\ InitUI

\* the range box and its fields
NextFields ==
    \/ ToggleTimeRange
    \/ \E text \in FieldTexts : SetStartFrame(text)
    \/ \E text \in FieldTexts : SetEndFrame(text)

\* the behaviours of the range fields
SpecFields == InitFields /\ [][NextFields]_vars

\* the playback ranges of a scene, as int()
\* leaves their ends: a range of one frame has both ends on it
PlaybackRanges == {r \in [min : 0..MaxFrame, max : 0..MaxFrame] : r.min <= r.max}

\* the control without keys, keyed
\* on the first frame or on every frame of the timeline
RangeKeySets == {{}, {0}, 0..MaxFrame}

\* the dialog opened on the space-switch rig in a scene with any playback
\* range
\* the initial states of SpecRange
InitRange ==
    /\ time = 1
    /\ \E K \in RangeKeySets :
          /\ keys = InitKeys(SpaceRigNodes, K)
          /\ val = ValuesAt(InitKeys(SpaceRigNodes, K), InitStatic(SpaceRigNodes), time)
    /\ nodes = SpaceRigNodes
    /\ attrs = PlugsOf(SpaceRigNodes)
    /\ rotate_order = [n \in SpaceRigNodes |-> "xyz"]
    /\ selection = <<>>
    /\ playback \in PlaybackRanges
    /\ InitUI

\* the behaviours over the playback ranges
SpecRange == InitRange /\ [][Next]_vars

\* ------------------------------------------------- the functions, called
\* the animator selects nodes of the scene
\* [233-234 create_transform_keys] cmds.ls(selection=True)
Select(s) ==
    /\ s /= selection
    /\ SeqToSet(s) \subseteq nodes
    /\ selection' = s
    /\ UNCHANGED <<time, val, keys, nodes, attrs, rotate_order, playback, space_data, ikfk_data, uiVars, run, pre, switches>>

\* observation: the execution record of a call with the arguments as
CallOf(as) == [NewExec(NoFail) EXCEPT !.args = as]

\* [341-362 get_world_matrix] called on the name ctl; the pose returned is
\* kept in the record of the call
CallGetWorldMatrix(ctl) ==
    /\ switches < MaxSwitches
    /\ Commit("get_world_matrix", [CallOf(<<ctl>>) EXCEPT !.reads = <<[at |-> time, n |-> 0, blk |-> "", node |-> ctl, pose |-> get_world_matrix(NewExec(NoFail), ctl)]>>])

\* [365-378 apply_world_matrix] called on the name ctl with a pose
CallApplyWorldMatrix(ctl, pose) ==
    /\ switches < MaxSwitches
    /\ Commit("apply_world_matrix", apply_world_matrix(CallOf(<<ctl, pose>>), ctl, pose))

\* [212-250 create_transform_keys] called with a list of names and the set
\* of the channels whose flag is True
CallCreateTransformKeys(objects, flags) ==
    /\ switches < MaxSwitches
    /\ Commit("create_transform_keys", create_transform_keys(CallOf(<<objects, flags>>), objects, flags))

\* the names the functions are called on: a control, a control that may
\* be deleted, a joint, two nodes that are not transforms
CallNodes == {Ctl, FkElbow, WristJnt, Rig, Arm}

\* the world poses applied
CallPoses == {[pos |-> <<1, 2, 3>>, rot |-> <<4, 5, 6>>]}

\* the lists of names keyed: none, None alone, one name, two names
CallObjects == {<<>>, <<"">>, <<Ctl>>, <<Rig>>, <<Ctl, FkElbow>>, <<"", Ctl>>}

\* the flag sets: none, one channel, the rotate channels, all nine
CallFlags == {{}, {"translateX"}, Rot, ChannelSet}

\* the selections of the animator
CallSelections == {<<>>, <<FkElbow>>, <<FkElbow, IkWrist>>}

\* the scene of both rigs, the controls unkeyed or keyed on the first frames
\* the initial states of SpecCalls
InitCalls ==
    /\ InitScene(SpaceRigNodes \cup ArmRigNodes, {{}, 0..1}, {1}, {"xyz"})
    /\ InitUI

\* the three functions called by a script, the control deleted, nodes
\* selected
\* the steps of SpecCalls
NextCalls ==
    \/ DeleteNode(Ctl)
    \/ \E s \in CallSelections : Select(s)
    \/ \E n \in CallNodes : CallGetWorldMatrix(n)
    \/ \E n \in CallNodes, pose \in CallPoses : CallApplyWorldMatrix(n, pose)
    \/ \E objects \in CallObjects, flags \in CallFlags : CallCreateTransformKeys(objects, flags)

\* the behaviours of the calls
SpecCalls == InitCalls /\ [][NextCalls]_vars


\* ------------------------------------------------------ the main switch tab
\* One handler of the dialog threads a record u through its statements: the
\* fields of panel, space (the space switch dictionary), ikfk (the ik/fk
\* dictionary), err (the exception that ended the handler, "" if none) and
\* warns (the message boxes shown).
\* observation: the dialog as a handler finds it
UiOf == [tab |-> panel.tab, items |-> panel.items, file_list_items |-> panel.file_list_items, selected_item |-> panel.selected_item, current |-> panel.current, sel |-> panel.sel, space |-> space_data, ikfk |-> ikfk_data, err |-> "", warns |-> <<>>]

\* a statement of a handler raises: the slot ends there
\* [935-935 SpaceSwitchTool._update_selected_item]
Fail(u, err) == IF u.err /= "" THEN u ELSE [u EXCEPT !.err = err]

\* [329-338 double_warning] in a handler of the dialog
Warn(u, msg) == IF u.err /= "" THEN u ELSE [u EXCEPT !.warns = Append(@, msg)]

\* [942-942 SpaceSwitchTool._update_selected_item] a reference to an item of
\* the list widget
Item(name) == [kind |-> "item", name |-> name]

\* [1143-1143 SpaceSwitchTool.populate_list_widget] a reference to an item
\* that clear() has deleted
Stale(name) == [kind |-> "stale", name |-> name]

\* [982-982 SpaceSwitchTool._delete_item] del self._selected_item: the
\* attribute is gone
Unset == [kind |-> "unset", name |-> ""]

\* the json files of the folder: a space switch, an ik/fk switch, a space
\* switch whose mode reads "ikfk switch", an empty object, a space switch
\* with nothing loaded
\* [1045-1050 SpaceSwitchTool._load_switch_data] data = json.load(in_file)
FileData(name) == CASE name = "space" -> SpaceDict(Ctl, <<SpaceA, 0>>, <<SpaceA, MaxSpaceValue>>) [] name = "ikfk" -> IkfkDict(TRUE) [] name = "mixed" -> [SpaceDict(Ctl, <<SpaceA, 0>>, <<SpaceA, MaxSpaceValue>>) EXCEPT !["mode"] = StrV("ikfk switch")] [] name = "empty" -> <<>> [] OTHER -> SpaceDict("", <<>>, <<>>)

\* [1303-1318 SpaceSwitchTool.validate_switch_data] the method: an empty or
\* missing data argument gives way to the dictionary of the mode
validate_method(u, switch_mode, data) == IF switch_mode = "space switch" THEN validate_switch_data(SpaceKeys, SpaceAttrKeys, IF DOMAIN data = {} THEN u.space ELSE data, nodes, attrs) ELSE validate_switch_data(IkfkKeys, IkfkAttrKeys, IF DOMAIN data = {} THEN u.ikfk ELSE data, nodes, attrs)

\* [1154-1169 SpaceSwitchTool._populate_space_switch_UI] the subscripts
PopulateSpace(u) == IF u.err /= "" THEN u ELSE IF ~(SpaceKeys \ {"mode"} \subseteq DOMAIN u.space) THEN Fail(u, "KeyError") ELSE IF \E k \in SpaceAttrKeys : Len(u.space[k].items) < 2 THEN Fail(u, "IndexError") ELSE u

\* [1171-1208 SpaceSwitchTool._populate_ikfk_switch_UI] the subscripts
PopulateIkfk(u) == IF u.err /= "" THEN u ELSE IF ~(IkfkKeys \ {"mode"} \subseteq DOMAIN u.ikfk) THEN Fail(u, "KeyError") ELSE IF \E k \in IkfkAttrKeys : Len(u.ikfk[k].items) < 2 THEN Fail(u, "IndexError") ELSE u

\* [942-942 SpaceSwitchTool._update_selected_item] self._selected_item = item
MarkSelected(u, name) == IF u.err /= "" THEN u ELSE [u EXCEPT !.selected_item = Item(name)]

\* [926-942 SpaceSwitchTool._update_selected_item]
update_selected_item(u, name) == IF u.err /= "" THEN u ELSE IF name \notin u.file_list_items THEN Fail(u, "KeyError") ELSE IF "mode" \notin DOMAIN FileData(name) THEN Fail(u, "KeyError") ELSE IF FileData(name)["mode"] = StrV("space switch") THEN MarkSelected(PopulateSpace([u EXCEPT !.space = FileData(name)]), name) ELSE MarkSelected(PopulateIkfk([u EXCEPT !.ikfk = FileData(name)]), name)

\* [944-955 SpaceSwitchTool._list_item_selected]
list_item_selected(u) == IF u.selected_item = Unset THEN Fail(u, "AttributeError") ELSE IF u.selected_item = Item(u.current) THEN [u EXCEPT !.sel = FALSE, !.selected_item = NoItem] ELSE update_selected_item(u, u.current)

\* [891-905 SpaceSwitchTool._context_menu] up to the popup
context_menu(u) == IF ~u.sel THEN u ELSE IF u.selected_item = Unset THEN Fail(u, "AttributeError") ELSE IF u.selected_item /= Item(u.current) THEN update_selected_item(u, u.current) ELSE u

\* [957-970 SpaceSwitchTool._add_item]
add_item(u, name) == IF name \in SeqToSet(u.items) THEN Warn(u, "Item already exists in the list!") ELSE [u EXCEPT !.file_list_items = @ \cup {name}, !.items = Append(@, name)]

\* [1032-1080 SpaceSwitchTool._load_switch_data] after the file is read
load_switch_data(u, name, give_warning) == IF u.err /= "" THEN u ELSE IF u.tab = "space" THEN (IF validate_method(u, "space switch", FileData(name)) THEN PopulateSpace([u EXCEPT !.space = FileData(name)]) ELSE Warn(u, "Invalid json file selected!")) ELSE IF u.tab = "ikfk" THEN (IF validate_method(u, "ikfk switch", FileData(name)) THEN PopulateIkfk([u EXCEPT !.ikfk = FileData(name)]) ELSE Warn(u, "Invalid json file selected!")) ELSE IF validate_method(u, "space switch", FileData(name)) \/ validate_method(u, "ikfk switch", FileData(name)) THEN add_item(u, name) ELSE IF give_warning THEN Warn(u, "Invalid json file selected!") ELSE u

\* [1149-1152 SpaceSwitchTool.populate_list_widget] the files of the folder
RECURSIVE LoadFiles(_, _, _)
LoadFiles(u, files, i) == IF i > Len(files) THEN u ELSE LoadFiles(load_switch_data(u, files[i], FALSE), files, i + 1)

\* [1140-1152 SpaceSwitchTool.populate_list_widget] clear() deletes the
\* items; _selected_item is left as it is
populate_list_widget(u, files) == LoadFiles([u EXCEPT !.items = <<>>, !.file_list_items = {}, !.current = "", !.sel = FALSE, !.selected_item = IF @.kind = "item" THEN Stale(@.name) ELSE @], files, 1)

\* [979-980 SpaceSwitchTool._delete_item] the row of the current item
RowOf(items, name) == CHOOSE i \in 1..Len(items) : items[i] = name

\* [980-980 SpaceSwitchTool._delete_item] takeItem(row): the list widget
\* makes the next item (the last, after the last row) current and selected
TakeItem(u, row) == [u EXCEPT !.items = SelectSeq(@, LAMBDA n : n /= u.items[row]), !.current = IF Len(u.items) = 1 THEN "" ELSE IF row < Len(u.items) THEN u.items[row + 1] ELSE u.items[row - 1], !.sel = Len(u.items) > 1]

\* [981-990 SpaceSwitchTool._delete_item] from the pop on
AfterTake(u, name) == IF name \notin u.file_list_items THEN Fail(u, "KeyError") ELSE IF u.sel THEN update_selected_item([u EXCEPT !.file_list_items = @ \ {name}, !.selected_item = Unset], u.current) ELSE [u EXCEPT !.file_list_items = @ \ {name}, !.selected_item = NoItem]

\* [972-990 SpaceSwitchTool._delete_item]
delete_item(u) == IF u.err /= "" THEN u ELSE IF u.selected_item.kind \in {"none", "unset"} THEN Fail(u, "AttributeError") ELSE IF u.selected_item.kind = "stale" THEN Fail(u, "RuntimeError") ELSE AfterTake(TakeItem(u, RowOf(u.items, u.current)), u.selected_item.name)

\* [992-1030 SpaceSwitchTool._save_switch_data] up to the file dialog; text
\* is the outcome of text() on a deleted item: it raises, or the name is
\* still read
save_switch_data(u, text) == IF u.tab = "space" THEN (IF validate_method(u, "space switch", <<>>) THEN u ELSE Warn(u, "Data incomplete, please review all entries!")) ELSE IF u.tab = "ikfk" THEN (IF validate_method(u, "ikfk switch", <<>>) THEN u ELSE Warn(u, "Data incomplete, please review all entries!")) ELSE IF u.selected_item = Unset THEN Fail(u, "AttributeError") ELSE IF u.selected_item = NoItem THEN Warn(u, "Please select an item form the list!") ELSE IF u.selected_item.kind = "stale" /\ ~text THEN Fail(u, "RuntimeError") ELSE IF u.selected_item.name \notin u.file_list_items THEN Fail(u, "KeyError") ELSE u

\* the folders refreshed from: empty, the two proper files, the four files
Folders == {<<>>, <<"ikfk", "space">>, <<"bad", "ikfk", "mixed", "space">>}

\* the files picked in the load dialog
Files == {"bad", "ikfk", "mixed", "space"}

\* observation: the dialog after a handler, and what the handler did
CommitUi(op, as, u) ==
    /\ panel' = [tab |-> u.tab, items |-> u.items, file_list_items |-> u.file_list_items, selected_item |-> u.selected_item, current |-> u.current, sel |-> u.sel]
    /\ space_data' = u.space
    /\ ikfk_data' = u.ikfk
    /\ run' = [NoRun EXCEPT !.op = op, !.args = as, !.err = u.err, !.raised = u.err /= "", !.warns = u.warns]
    /\ UNCHANGED <<sceneVars, bake_mode, ik_to_fk, set_time_range, start_frame, end_frame, fields, pre, switches>>

\* [565-567 SpaceSwitchTool._set_widgets] the animator shows another tab
SetTab(t) ==
    /\ t /= panel.tab
    /\ CommitUi("tab", <<t>>, [UiOf EXCEPT !.tab = t])

\* [792-792 SpaceSwitchTool._connect_signals] _load_data_btn clicked and the
\* json file name picked in the dialog
LoadFile(name) ==
    /\ name \in Files
    /\ CommitUi("load", <<name>>, load_switch_data(UiOf, name, TRUE))

\* [798-798 SpaceSwitchTool._connect_signals] _refresh_list_btn clicked, the
\* folder holding the json files of the sequence files
Refresh(files) ==
    /\ panel.tab = "main"
    /\ CommitUi("refresh", <<files>>, populate_list_widget(UiOf, files))

\* [799-799 SpaceSwitchTool._connect_signals] a left click on the item x: the
\* list widget makes it current and selected, then itemClicked is emitted
ClickItem(x) ==
    /\ panel.tab = "main"
    /\ x \in SeqToSet(panel.items)
    /\ CommitUi("click", <<x>>, list_item_selected([UiOf EXCEPT !.current = x, !.sel = TRUE]))

\* [800-802 SpaceSwitchTool._connect_signals] a right click on the item x,
\* which the list widget makes current and selected; the popup is dismissed
ContextMenu(x) ==
    /\ panel.tab = "main"
    /\ x \in SeqToSet(panel.items)
    /\ CommitUi("menu", <<x>>, context_menu([UiOf EXCEPT !.current = x, !.sel = TRUE]))

\* [803-803 SpaceSwitchTool._connect_signals] a right click on the item x and
\* the delete action of the popup
ContextDelete(x) ==
    /\ panel.tab = "main"
    /\ x \in SeqToSet(panel.items)
    /\ CommitUi("delete", <<x>>, delete_item(context_menu([UiOf EXCEPT !.current = x, !.sel = TRUE])))

\* [793-793 SpaceSwitchTool._connect_signals] _save_data_btn clicked
Save(text) ==
    /\ text \in BOOLEAN
    /\ CommitUi("save", <<text>>, save_switch_data(UiOf, text))

\* the dialog opened on a scene holding both rigs, in an empty folder
InitList ==
    /\ InitScene(SpaceRigNodes \cup ArmRigNodes, {{}}, {1}, {"xyz"})
    /\ InitUI

\* the tabs, the title buttons and
\* the list of the main switch tab
NextList ==
    \/ \E t \in {"main", "space", "ikfk"} : SetTab(t)
    \/ \E name \in Files : LoadFile(name)
    \/ \E files \in Folders : Refresh(files)
    \/ \E x \in Files : ClickItem(x)
    \/ \E x \in Files : ContextMenu(x)
    \/ \E x \in Files : ContextDelete(x)
    \/ \E text \in BOOLEAN : Save(text)

\* the behaviours of the list
SpecList == InitList /\ [][NextList]_vars

\* ------------------------------------------------------- the load buttons
\* [1224-1226 SpaceSwitchTool.load_attr_value] d[key] = value on a Python
\* dictionary: the key is added when d does not have it
DictSet(d, key, v) == [k \in DOMAIN d \cup {key} |-> IF k = key THEN v ELSE d[k]]

\* [1224-1236 SpaceSwitchTool.load_attr_value] the dictionary of the key
StoreEntry(u, key, v) == IF key \in SpaceKeys THEN [u EXCEPT !.space = DictSet(@, key, v)] ELSE [u EXCEPT !.ikfk = DictSet(@, key, v)]

\* variant: an invalid selection leaves the entry as it was
load_attr_value_keeping(u, key, sel, attr) == IF Len(sel) = 1 /\ Len(attr) = 1 THEN StoreEntry(u, key, ListV(<<attr[1], val[attr[1]]>>)) ELSE Warn(u, "Invalid selection!")

\* [1210-1240 SpaceSwitchTool.load_attr_value] sel is cmds.ls(selection=
\* True), attr the plugs selected in the channel box
load_attr_value(u, key, sel, attr) == IF Len(sel) = 1 /\ Len(attr) = 1 THEN StoreEntry(u, key, ListV(<<attr[1], val[attr[1]]>>)) ELSE Warn(StoreEntry(u, key, ListV(<<>>)), "Invalid selection!")

\* [1252-1252 SpaceSwitchTool.load_target_control] cmds.ls(selection=True,
\* type=typ): a joint is a transform as well
OfType(sel, typ) == SelectSeq(sel, LAMBDA n : IF typ = "joint" THEN nodeType(n) = "joint" ELSE nodeType(n) \in {"transform", "joint"})

\* [1242-1269 SpaceSwitchTool.load_target_control] sel is the selection of
\* the type asked for
load_target_control(u, key, sel) == IF Len(sel) = 1 THEN StoreEntry(u, key, StrV(sel[1])) ELSE Warn(StoreEntry(u, key, StrV("")), "Invalid selection!")

\* [806-811 SpaceSwitchTool._connect_signals] a load button of an attribute
\* clicked, with the plugs attr of the selected nodes picked in the channel
\* box
LoadAttrValue(key, attr) ==
    /\ panel.tab = (IF key \in SpaceKeys THEN "space" ELSE "ikfk")
    /\ \A i \in 1..Len(attr) : attr[i][1] \in SeqToSet(selection) /\ attr[i] \in attrs
    /\ CommitUi("load_attr_value", <<key, attr>>, load_attr_value(UiOf, key, selection, attr))

\* [812-866 SpaceSwitchTool._connect_signals] a load button of a control or
\* of a joint clicked
LoadTargetControl(key) ==
    /\ panel.tab = (IF key \in SpaceKeys THEN "space" ELSE "ikfk")
    /\ CommitUi("load_target_control", <<key>>, load_target_control(UiOf, key, OfType(selection, IF key \in {"shoulder joint", "elbow joint", "wrist joint"} THEN "joint" ELSE "transform")))

\* [1397-1404 SpaceSwitchTool.execute_switch] the switch of the tab shown;
\* answer is the button pressed if the rotate order message box opens
ExecuteSwitch(answer) ==
    /\ switches < MaxSwitches
    /\ IF panel.tab = "space" THEN Commit("space", space_switch(NewExec(NoFail))) ELSE Commit("ikfk", ikfk_switch(NewExec(NoFail), answer))

\* the selections of the animator: nothing, the node of the spaces, the
\* control, a joint
LoadSelections == {<<>>, <<Rig>>, <<Ctl>>, <<WristJnt>>}

\* the plugs picked in the channel box: none, one, two
ChannelPicks == {<<>>, <<SpaceA>>, <<SpaceA, SpaceB>>}

\* the load buttons pressed: of an attribute
LoadedAttrKeys == {"source space"}

\* the load buttons pressed: of the control, of a joint
LoadedControlKeys == {"target control", "wrist joint"}

\* the files picked in the load dialog
LoadedFiles == {"space"}

\* the tabs, the load buttons,
\* the load dialog and the switch button
NextLoad ==
    \/ \E t \in {"space", "ikfk"} : SetTab(t)
    \/ \E s \in LoadSelections : Select(s)
    \/ \E key \in LoadedAttrKeys, attr \in ChannelPicks : LoadAttrValue(key, attr)
    \/ \E key \in LoadedControlKeys : LoadTargetControl(key)
    \/ \E name \in LoadedFiles : LoadFile(name)
    \/ \E answer \in {"Yes"} : ExecuteSwitch(answer)

\* the behaviours of the load buttons
SpecLoad == InitList /\ [][NextLoad]_vars

\* ------------------------------------------------------------- properties
\* the plug of the source space
source_space == space_data["source space"].items[1]
\* the value of the source space
source_value == space_data["source space"].items[2]
\* the plug of the target space
target_space == space_data["target space"].items[1]
\* the value of the target space
target_value == space_data["target space"].items[2]

\* the last execution was a space switch that passed validation
SpaceRan == run.op = "space" /\ run.started
\* ... and ran to the end of its try block
SpaceDone == SpaceRan /\ ~run.raised
CurrentFrameDone == SpaceDone /\ bake_mode = "currentFrame"

\* the pose of the control at frame t before and after the last execution
PoseBefore(t) == PoseAt(pre.keys, pre.val, Ctl, t)
PoseAfter(t) == PoseAt(keys, val, Ctl, t)

\* C1: after a CurrentFrame space switch at frame t the control has, at t,
\* the world translation and rotation it had at t before the switch, both
\* as the scene shows it and as its curves evaluate at t.
C1_PosePreserved ==
    CurrentFrameDone =>
        /\ time = pre.time
        /\ WorldPose(val, Ctl) = WorldPose(pre.val, Ctl)
        /\ PoseAfter(pre.time) = WorldPose(pre.val, Ctl)

\* a CurrentFrame switch between two different spaces has run
C1_Witness ==
    /\ CurrentFrameDone
    /\ SpaceOffsetT(val) /= SpaceOffsetT(pre.val)
    /\ LocalT(val, Ctl) /= LocalT(pre.val, Ctl)
    /\ LocalR(val, Ctl) /= LocalR(pre.val, Ctl)

\* key times added to plug p by the last execution
NewKeyTimes(p) == KeyTimes(keys[p]) \ KeyTimes(pre.keys[p])

\* C2: a CurrentFrame space switch at t keys the control's translate and
\* rotate channels at t-1 and t and at no other new time; the source space
\* is keyed with the source value at t-1 and the target space with the
\* target value at t, and the space attributes get no other new key.
C2_BoundaryFraming ==
    CurrentFrameDone =>
        /\ \A c \in TR :
              /\ {pre.time - 1, pre.time} \subseteq KeyTimes(keys[<<Ctl, c>>])
              /\ NewKeyTimes(<<Ctl, c>>) \subseteq {pre.time - 1, pre.time}
        /\ \A c \in ChannelSet \ TR : NewKeyTimes(<<Ctl, c>>) = {}
        /\ pre.time - 1 \in KeyTimes(keys[source_space])
        /\ pre.time \in KeyTimes(keys[target_space])
        /\ keys[target_space][pre.time] = target_value
        /\ ValuesAt(keys, val, pre.time - 1)[source_space] = source_value
        /\ ValuesAt(keys, val, pre.time)[target_space] = target_value
        /\ keys[source_space][pre.time - 1] = source_value
        /\ \A p \in SpacePlugs :
              NewKeyTimes(p) \subseteq
                  (IF p = source_space THEN {pre.time - 1} ELSE {}) \cup
                  (IF p = target_space THEN {pre.time} ELSE {})

\* a CurrentFrame switch has run on a control with no key at t-1 or t
C2_Witness ==
    /\ CurrentFrameDone
    /\ pre.time - 1 \notin KeyTimes(pre.keys[<<Ctl, "translateX">>])
    /\ pre.time \notin KeyTimes(pre.keys[<<Ctl, "rotateZ">>])
    /\ KeyTimes(pre.keys[<<Ctl, "rotateZ">>]) /= {}
    /\ source_value /= target_value

\* an entry of a switch dictionary that is empty or names a node or a plug
\* the scene does not hold
Unresolved(data, attr_keys) == \E key \in DOMAIN data \ {"mode"} : Empty(data[key]) \/ IF key \in attr_keys THEN data[key].items[1][1] \notin nodes \/ data[key].items[1] \notin attrs ELSE data[key].s \notin nodes

\* the last execution returned on its first warning msg, the scene untouched
AbortedWith(msg) ==
    /\ run.warns = <<msg>>
    /\ run.log = <<>>
    /\ ~run.started
    /\ run.undoOpen = 0
    /\ run.locks = 0
    /\ time = pre.time
    /\ val = pre.val
    /\ keys = pre.keys

\* C3: a space switch or an ik/fk switch whose dictionary has an empty entry
\* or names a node or an attribute the scene no longer holds warns and
\* returns with no scene call issued (no currentTime, setAttr, setKeyframe
\* or xform), no undo chunk opened and the scene as it was.
C3_StaleReferenceAborts ==
    /\ (run.op = "space" /\ Unresolved(space_data, SpaceAttrKeys)) => AbortedWith("Attributes and control are invalid!")
    /\ (run.op = "ikfk" /\ Unresolved(ikfk_data, IkfkAttrKeys)) => AbortedWith("Either joints, controls or attributes loaded are invalid!")

\* both dictionaries were loaded, then an attribute of the space rig and a
\* control of the arm were deleted, then both switches were executed
C3_Witness ==
    /\ run.op = "ikfk"
    /\ pre.op = "space"
    /\ \A key \in DOMAIN ikfk_data : ~Empty(ikfk_data[key])
    /\ \A key \in DOMAIN space_data : ~Empty(space_data[key])
    /\ FkElbow \notin nodes
    /\ SpaceA \notin attrs
    /\ run.warns /= <<>>

\* C4: a space switch that passes validation opens the undo chunk and locks
\* the viewport once, and closes the chunk and unlocks the viewport exactly
\* once, whichever scene call raises, in every baking mode, and also when
\* no call raises and when there are no keys to bake.
C4_ChunkClosedOnce ==
    SpaceRan =>
        /\ run.undoOpen = 1
        /\ run.locks = 1
        /\ run.undoClose = 1
        /\ run.unlocks = 1

\* a scene call raised in the middle of a bake, after other calls were made
C4_Witness ==
    /\ SpaceRan
    /\ bake_mode /= "currentFrame"
    /\ run.raised
    /\ run.err = "scene"
    /\ run.failAt > 2
    /\ Len(run.log) = run.failAt
    /\ run.undoClose = 1
    /\ run.unlocks = 1

\* the last execution was an ik/fk switch that passed its checks
IkfkRan == run.op = "ikfk" /\ run.started

\* C5: an ik/fk switch that passes validation opens an undo chunk and
\* suppresses the viewport, and releases both exactly once.
C5_IkfkChunkAndViewport ==
    IkfkRan =>
        /\ run.undoOpen = 1
        /\ run.locks = 1
        /\ run.undoClose = 1
        /\ run.unlocks = 1

\* the key times of the nodes ns when the last execution started
RefKeys(ns) == UNION {KeyTimes(pre.keys[p]) : p \in PlugsOf(ns)}

\* the frames the range fields select
InWindow(k) == set_time_range => start_frame <= k /\ k <= end_frame

\* the keys of the nodes ns the bake at keyframes works on
Selected(ns) == {k \in RefKeys(ns) : InWindow(k)}

\* the last execution warned of no keys and left the scene as it was
NoKeysOutcome ==
    /\ \E i \in 1..Len(run.warns) : run.warns[i] = "No keys to bake!"
    /\ run.log = <<>>
    /\ time = pre.time
    /\ val = pre.val
    /\ keys = pre.keys

\* C6: a bake at the existing keyframes whose range holds no key of the
\* control (of the controls of the direction, for the ik/fk switch), or whose
\* control has no key, warns "No keys to bake!" with no scene call issued:
\* the current time, the values and the curves are as before.
C6_NoKeysToBake ==
    /\ (SpaceRan /\ bake_mode = "bakeKeyframes" /\ Selected({Ctl}) = {}) => NoKeysOutcome
    /\ (IkfkRan /\ bake_mode = "bakeKeyframes" /\ Selected(SeqToSet(SwitchControls(ikfk_data, ik_to_fk))) = {}) => NoKeysOutcome

\* both switches were executed as a bake at keyframes on controls whose keys
\* all lie outside the range of the fields
C6_Witness ==
    /\ IkfkRan
    /\ pre.op = "space"
    /\ pre.raised
    /\ bake_mode = "bakeKeyframes"
    /\ RefKeys(SeqToSet(SwitchControls(ikfk_data, ik_to_fk))) /= {}
    /\ Selected(SeqToSet(SwitchControls(ikfk_data, ik_to_fk))) = {}
    /\ RefKeys({Ctl}) /= {}
    /\ Selected({Ctl}) = {}

\* the last execution keyed plug to the value v at frame t, in block b
KeyedIn(b, plug, v, t) == \E i \in 1..Len(run.log) : run.log[i].blk = b /\ run.log[i].op = "setKeyframe" /\ run.log[i].plug = plug /\ run.log[i].arg = <<v>> /\ run.log[i].at = t

\* the range of the fields lies strictly inside the keys of the control
StrictlyInside == set_time_range /\ Selected({Ctl}) /= {} /\ \A k \in Selected({Ctl}) : SetMin(RefKeys({Ctl})) < k /\ k < SetMax(RefKeys({Ctl}))

\* C7: a bake at keyframes whose range lies strictly inside the keys of the
\* control makes two boundary switches: at the first selected key (source
\* keyed before it, target keyed on it) and at the last selected key, the
\* other way round (target keyed before it, source keyed on it).
C7_TwoBoundarySwitches ==
    (SpaceDone /\ bake_mode = "bakeKeyframes" /\ StrictlyInside) =>
        /\ KeyedIn("head", source_space, source_value, SetMin(Selected({Ctl})) - 1)
        /\ KeyedIn("head", target_space, target_value, SetMin(Selected({Ctl})))
        /\ KeyedIn("tail", target_space, target_value, SetMax(Selected({Ctl})) - 1)
        /\ KeyedIn("tail", source_space, source_value, SetMax(Selected({Ctl})))

\* the world pose the control had at frame t with the source space at the
\* source value, when the last execution started
SourcePose(t) == WorldPose([ValuesAt(pre.keys, pre.val, t) EXCEPT ![source_space] = source_value], Ctl)

\* C8: after a bake at keyframes that ran to its end, the control has at
\* every selected key the world pose it had there under the source space.
C8_BakeKeyframesPose ==
    (SpaceDone /\ bake_mode = "bakeKeyframes") => \A k \in Selected({Ctl}) : PoseAfter(k) = SourcePose(k)

\* the frames a bake of every frame works on
BakedRange == IF set_time_range THEN start_frame..end_frame ELSE playback.min..playback.max

\* C9: after a bake of every frame that ran to its end, the control has at
\* every frame of the range the world pose it had there under the source
\* space.
C9_BakeEveryFramePose ==
    (SpaceDone /\ bake_mode = "everyFrame") => \A f \in BakedRange : PoseAfter(f) = SourcePose(f)

\* the last execution is the second of two CurrentFrame switches
SecondCurrentFrame == CurrentFrameDone /\ pre.again /\ pre.op = "space" /\ ~pre.raised

\* C10: a second CurrentFrame switch with the same dictionary at the same
\* frame changes nothing the first one left: the world pose of the control
\* at the frame, the values of the space attributes at the frame and the
\* frame before, and the key times of every plug.
C10_CurrentFrameIdempotent ==
    SecondCurrentFrame =>
        /\ time = pre.time
        /\ WorldPose(val, Ctl) = WorldPose(pre.val, Ctl)
        /\ PoseAfter(time) = PoseBefore(time)
        /\ \A p \in SpacePlugs : ValuesAt(keys, val, time)[p] = ValuesAt(pre.keys, pre.val, time)[p]
        /\ \A p \in SpacePlugs : ValuesAt(keys, val, time - 1)[p] = ValuesAt(pre.keys, pre.val, time - 1)[p]
        /\ \A p \in DOMAIN keys : KeyTimes(keys[p]) = KeyTimes(pre.keys[p])

\* two CurrentFrame switches between different spaces ran on an animated
\* control
C10_Witness ==
    /\ SecondCurrentFrame
    /\ source_value /= target_value
    /\ KeyTimes(keys[<<Ctl, "translateX">>]) /= {time - 1, time}
    /\ keys[target_space][time] = target_value

\* the last execution ran get_fk_to_ik_switch, which read the joints at S, E
\* and W on entry
PoleInputs(S, E, W) == IkfkRan /\ run.orig.shoulder_pos = S /\ run.orig.elbow_pos = E /\ run.orig.wrist_pos = W

\* C11: with the shoulder joint at (0,0,0), the wrist joint at (0,0,10) and
\* the elbow joint at (0,5,5), get_fk_to_ik_switch takes the midpoint
\* (0,0,5) and returns the pole position (0,20,5).
C11_PoleAtBindPose ==
    PoleInputs(<<0, 0, 0>>, <<0, 5, 5>>, <<0, 0, 10>>) =>
        /\ midpoint_vector(run.orig.shoulder_pos, run.orig.wrist_pos) = <<0, 0, 5>>
        /\ run.data.c = <<0, 20, 5>>

\* C11 as stated: from the same joint positions the pole position returned
\* is (0,20,-15).
C11_PoleAsStated ==
    PoleInputs(<<0, 0, 0>>, <<0, 5, 5>>, <<0, 0, 10>>) =>
        /\ midpoint_vector(run.orig.shoulder_pos, run.orig.wrist_pos) = <<0, 0, 5>>
        /\ run.data.c = <<0, 20, -15>>

\* an FK to IK switch at the current frame ran on the arm at its bind pose
C11_Witness ==
    /\ PoleInputs(RestPos(ShoulderJnt), RestPos(ElbowJnt), RestPos(WristJnt))
    /\ RestPos(ElbowJnt) = <<0, 5, 5>>
    /\ bake_mode = "currentFrame"
    /\ ~ik_to_fk
    /\ Len(run.data.c) = 3

\* the last execution was an FK to IK switch at the current frame
FkToIkAtCurrentFrame == IkfkRan /\ bake_mode = "currentFrame" /\ run.orig.shoulder_pos /= <<>>

\* C12: the pole position returned by get_fk_to_ik_switch is
\* M + (E - M) * 4 with M = S + (W - S) * 0.5 in every component, that is
\* 2 * P = 8 * E - 3 * (S + W), where S, E and W are the world positions the
\* shoulder, elbow and wrist joints had when the function was entered.
C12_PoleFromEntryPositions ==
    /\ FkToIkAtCurrentFrame =>
          /\ run.orig.shoulder_pos = WorldT(pre.val, ShoulderJnt)
          /\ run.orig.elbow_pos = WorldT(pre.val, ElbowJnt)
          /\ run.orig.wrist_pos = WorldT(pre.val, WristJnt)
    /\ (IkfkRan /\ run.orig.shoulder_pos /= <<>>) =>
          \A i \in 1..3 : 2 * run.data.c[i] = 8 * run.orig.elbow_pos[i] - 3 * (run.orig.shoulder_pos[i] + run.orig.wrist_pos[i])

\* an FK to IK switch at the current frame ran with the shoulder joint away
\* from the origin and the IK wrist control away from the wrist joint
C12_Witness ==
    /\ FkToIkAtCurrentFrame
    /\ run.orig.shoulder_pos /= <<0, 0, 0>>
    /\ LocalT(pre.val, IkWrist) /= run.orig.wrist_pos
    /\ run.data.c /= run.orig.elbow_pos

\* the plugs an IK/FK switch in the direction of the dialog writes: the
\* channels of the driven controls and the switch attribute
DrivenPlugs ==
    IF ik_to_fk
    THEN {<<NodeOf(ikfk_data, c), ch>> : c \in {"fk shoulder", "fk elbow", "fk wrist"}, ch \in Rot} \cup {AttrOf(ikfk_data, "fk switch")}
    ELSE {<<NodeOf(ikfk_data, "ik wrist"), ch>> : ch \in TR} \cup {<<NodeOf(ikfk_data, "ik elbow"), ch>> : ch \in Trans} \cup {AttrOf(ikfk_data, "ik switch")}

\* the last execution was an IK/FK switch at the current frame
IkfkCurrentFrameDone == IkfkRan /\ bake_mode = "currentFrame" /\ ~run.raised

\* C13: an IK/FK switch at the current frame t leaves the channels of the
\* driven controls and the switch attribute keyed at t - 1 and at t, for
\* every t, t = 1 included.
C13_HoldKeysAtBothFrames ==
    IkfkCurrentFrameDone => \A p \in DrivenPlugs : {pre.time - 1, pre.time} \subseteq KeyTimes(keys[p])

\* the keys an IK/FK bake at keyframes samples: the keys of the controls of
\* the direction inside the range of the fields
IkfkSamples == Selected(SeqToSet(SwitchControls(ikfk_data, ik_to_fk)))

\* the switch attribute an IK/FK switch in the direction of the dialog sets
TargetSwitch == AttrOf(ikfk_data, IF ik_to_fk THEN "fk switch" ELSE "ik switch")

\* the value it sets it to
TargetSwitchValue == ValueOf(ikfk_data, IF ik_to_fk THEN "fk switch" ELSE "ik switch")

\* C14: an IK/FK bake at keyframes with at least one sampled keyframe ends
\* with the target switch attribute at its target value, keyed to it at
\* every sampled keyframe, and with every channel of the driven controls
\* keyed at every sampled keyframe.
C14_IkfkBakeKeyframesRekeys ==
    (IkfkRan /\ bake_mode = "bakeKeyframes" /\ ~run.raised /\ IkfkSamples /= {}) =>
        /\ val[TargetSwitch] = TargetSwitchValue
        /\ \A k \in IkfkSamples :
              /\ k \in KeyTimes(keys[TargetSwitch])
              /\ keys[TargetSwitch][k] = TargetSwitchValue
              /\ \A p \in DrivenPlugs : k \in KeyTimes(keys[p])

\* the log entries of the last execution that move the time to a frame to
\* read the rig there: one before each call of get_ikfk_data of a bake
SampledFrames == SelectSeq(run.log, LAMBDA en : en.op = "currentTime" /\ en.blk = "capture")

\* the first frame of the range a bake of every frame works on
RangeStart == IF set_time_range THEN start_frame ELSE playback.min

\* C15: an IK/FK bake of every frame calls get_ikfk_data once at each frame
\* of the range (the range of the fields, or the playback range without
\* them), in order, and at no other frame.
C15_IkfkEveryFrameSamples ==
    (IkfkRan /\ bake_mode = "everyFrame" /\ ~run.raised) =>
        /\ Len(SampledFrames) = Cardinality(BakedRange)
        /\ \A i \in 1..Len(SampledFrames) : SampledFrames[i].arg = <<RangeStart + i - 1>>

\* the last execution was an IK/FK switch on valid data with an FK control
\* whose rotate order differs from its joint's
MismatchedSwitch == run.op = "ikfk" /\ validate_switch_data(IkfkKeys, IkfkAttrKeys, ikfk_data, nodes, attrs) /\ RotateOrderMismatch(ikfk_data)

\* the last execution opened the rotate order message box before any scene
\* call; on No it returned with no scene call and the scene as it was, on
\* Yes it went on with the switch
WarnedAndObeyed ==
    /\ run.warns = <<"Inconsistency Warning!">> \/ run.warns = <<"Inconsistency Warning!", "No keys to bake!">>
    /\ run.result.at = 0
    /\ run.result.button = "No" => ~run.started /\ run.log = <<>> /\ time = pre.time /\ val = pre.val /\ keys = pre.keys
    /\ run.result.button = "Yes" => run.started /\ (bake_mode = "currentFrame" => run.log /= <<>> /\ val[TargetSwitch] = TargetSwitchValue)

\* C16: an IK to FK switch in which an FK control's rotate order differs from
\* its joint's warns the animator before any scene call; declined, it
\* returns with the scene untouched; accepted, the switch proceeds. An FK to
\* IK switch makes no rotate order check: it opens no message box and
\* proceeds.
C16_RotateOrderWarning ==
    /\ (MismatchedSwitch /\ ik_to_fk) => WarnedAndObeyed
    /\ (MismatchedSwitch /\ ~ik_to_fk) => run.started /\ run.result.button = "" /\ \A i \in 1..Len(run.warns) : run.warns[i] /= "Inconsistency Warning!"

\* C16 as stated: the warning and the choice in either direction.
C16_WarningEitherDirection == MismatchedSwitch => WarnedAndObeyed

\* an IK to FK switch at the current frame ran on an arm with a rotate order
\* mismatch and was accepted, after an execution that left the values of the
\* scene as they were
C16_Witness ==
    /\ MismatchedSwitch
    /\ ik_to_fk
    /\ bake_mode = "currentFrame"
    /\ run.result.button = "Yes"
    /\ pre.again
    /\ pre.val = InitStatic(ArmRigNodes)
    /\ val /= pre.val

\* the last execution was a space switch in which a scene call raised
CallRaised == SpaceRan /\ run.failAt /= NoFail

\* the entries of the trace that key the plug p
KeyWrites(p) == {i \in 1..Len(run.log) : run.log[i].op = "setKeyframe" /\ run.log[i].plug = p}

\* the entries of the trace that move the time
TimeEdits == {i \in 1..Len(run.log) : run.log[i].op = "currentTime"}

\* the curve of p is the one the execution started with, with the keys the
\* trace wrote, each holding the value written last
KeysAsWritten(p) ==
    /\ KeyTimes(keys[p]) = KeyTimes(pre.keys[p]) \cup {run.log[i].at : i \in KeyWrites(p)}
    /\ \A t \in KeyTimes(pre.keys[p]) : (\A i \in KeyWrites(p) : run.log[i].at /= t) => keys[p][t] = pre.keys[p][t]
    /\ \A i \in KeyWrites(p) : (\A j \in KeyWrites(p) : run.log[j].at = run.log[i].at => j <= i) => keys[p][run.log[i].at] = run.log[i].arg[1]

\* C17: when a scene call of a space switch raises, the calls before it are
\* the whole trace, no setAttr, setKeyframe, transform write or currentTime
\* edit being issued after it, and what they did stays: the time is where
\* the last currentTime edit put it and every curve holds the keys written,
\* nothing being put back.
C17_RaiseStopsAndKeeps ==
    CallRaised =>
        /\ run.raised
        /\ run.err = "scene"
        /\ Len(run.log) = run.failAt
        /\ time = (IF TimeEdits = {} THEN pre.time ELSE run.log[SetMax(TimeEdits)].arg[1])
        /\ \A p \in DOMAIN keys : KeysAsWritten(p)

\* a scene call raised in a bake after keys were written and the time moved
C17_Witness ==
    /\ CallRaised
    /\ run.raised
    /\ bake_mode /= "currentFrame"
    /\ time /= pre.time
    /\ \E p \in DOMAIN keys : KeyWrites(p) /= {} /\ keys[p] /= pre.keys[p]
    /\ \E i \in 1..Len(run.log) : run.log[i].op = "xformR"

\* the entries of the trace issued in block b
BlockEntries(b) == {i \in 1..Len(run.log) : run.log[i].blk = b}

\* the last execution was a bake at keyframes whose tail boundary step ran
TailRan == SpaceRan /\ bake_mode = "bakeKeyframes" /\ BlockEntries("tail") /= {}

\* C18: whenever the tail boundary step of a bake at keyframes runs, the
\* end pose and the pose of the frame before it were read earlier in the
\* execution, so the step applies them without error, whatever the number of
\* selected keyframes, a single one included.
C18_TailPosesCaptured ==
    TailRan =>
        /\ {"end_pose", "prev_pose"} \subseteq run.bound
        /\ BlockEntries("closing") /= {}
        /\ \A i \in BlockEntries("closing"), j \in BlockEntries("tail") : i < j
        /\ run.err /= "UnboundLocalError"

\* the selected keyframes a bake at keyframes re-keys in place: all but the
\* one the head step took and the one the tail step took
InteriorKeys == (Selected({Ctl}) \ (IF BlockEntries("head") /= {} THEN {SetMin(Selected({Ctl}))} ELSE {})) \ (IF BlockEntries("tail") /= {} THEN {SetMax(Selected({Ctl}))} ELSE {})

\* the times the boundary steps of a bake at keyframes may add a key at
\* the frame before the first selected keyframe when the head step ran, the
\* frame before the last one when the tail step ran
BoundaryTimes == (IF BlockEntries("head") /= {} THEN {SetMin(Selected({Ctl})) - 1} ELSE {}) \cup (IF BlockEntries("tail") /= {} THEN {SetMax(Selected({Ctl})) - 1} ELSE {})

\* C19: after a bake at keyframes that ran to its end, every transform
\* channel of the control is keyed at its original key times and at most two
\* more, the frame before the first selected keyframe when the head step
\* ran and the frame before the last when the tail step ran; the target
\* space is keyed at the target value on every interior selected keyframe;
\* the keys of the control outside the range hold their values.
C19_BakeKeyframesKeyTimes ==
    (SpaceDone /\ bake_mode = "bakeKeyframes") =>
        /\ \A c \in TR : KeyTimes(keys[<<Ctl, c>>]) = KeyTimes(pre.keys[<<Ctl, c>>]) \cup BoundaryTimes
        /\ \A k \in InteriorKeys : k \in KeyTimes(keys[target_space]) /\ keys[target_space][k] = target_value
        /\ \A c \in TR : \A t \in KeyTimes(pre.keys[<<Ctl, c>>]) : ~InWindow(t) => keys[<<Ctl, c>>][t] = pre.keys[<<Ctl, c>>][t]

\* a bake at keyframes ran to its end over a range that leaves a key of the
\* control outside: its tail step added a key at a frame that had none and
\* its loop re-keyed an interior keyframe
C19_Witness ==
    /\ SpaceDone
    /\ bake_mode = "bakeKeyframes"
    /\ BlockEntries("tail") /= {}
    /\ InteriorKeys /= {}
    /\ \E t \in BoundaryTimes : t \notin KeyTimes(pre.keys[<<Ctl, "translateX">>]) /\ t \in KeyTimes(keys[<<Ctl, "translateX">>])
    /\ \E t \in KeyTimes(pre.keys[<<Ctl, "translateX">>]) : ~InWindow(t)

\* the entries of the trace that apply a pose to the control or key its
\* transform channels
Applies == {i \in 1..Len(run.log) : run.log[i].op \in {"xformT", "xformR"} \/ (run.log[i].op = "setKeyframe" /\ run.log[i].plug \in {<<Ctl, c>> : c \in TR})}

\* C20: in a bake at keyframes and in a bake of every frame, the last pose
\* read from the control is read before the first pose application and
\* before the first keying of its transform channels: no pose is captured
\* after an apply.
C20_CapturesBeforeApplies ==
    (SpaceRan /\ bake_mode /= "currentFrame" /\ Applies /= {}) => run.cap < SetMin(Applies)

\* the poses the gathering loop of the last execution read, in order
CaptureReads == SelectSeq(run.reads, LAMBDA r : r.blk = "capture")

\* the frames a bake of the space switch samples
SampleTimes == IF bake_mode = "bakeKeyframes" THEN Selected({Ctl}) ELSE BakedRange

\* the three scene calls before the read r move to the frame of r, set the
\* source space to the source value and key it there
ReadUnderSource(r) ==
    /\ r.n >= 3
    /\ run.log[r.n - 2].op = "currentTime" /\ run.log[r.n - 2].arg = <<r.at>>
    /\ run.log[r.n - 1].op = "setAttr" /\ run.log[r.n - 1].plug = source_space /\ run.log[r.n - 1].arg = <<source_value>>
    /\ run.log[r.n].op = "setKeyframe" /\ run.log[r.n].plug = source_space /\ run.log[r.n].arg = <<source_value>> /\ run.log[r.n].at = r.at

\* C21: in a bake at keyframes and in a bake of every frame, the gathering
\* loop visits every sampled frame once, in increasing order; at each it
\* sets the source space to the source value and keys it there before it
\* reads the pose, and the pose read is the one the control has at that
\* frame under the source space.
C21_CaptureUnderSource ==
    (SpaceRan /\ bake_mode /= "currentFrame") =>
        /\ Len(CaptureReads) = Cardinality(SampleTimes)
        /\ \A i \in 1..Len(CaptureReads) : CaptureReads[i].at \in SampleTimes
        /\ \A i, j \in 1..Len(CaptureReads) : i < j => CaptureReads[i].at < CaptureReads[j].at
        /\ \A i \in 1..Len(CaptureReads) : ReadUnderSource(CaptureReads[i]) /\ CaptureReads[i].node = Ctl /\ CaptureReads[i].pose = SourcePose(CaptureReads[i].at)

\* a bake read the poses of two frames or more of a control that was not
\* under the source space
C21_Witness ==
    /\ SpaceDone
    /\ bake_mode = "everyFrame"
    /\ Len(CaptureReads) >= 2
    /\ pre.val[source_space] /= source_value
    /\ \E i \in 1..Len(CaptureReads) : CaptureReads[i].pose /= PoseBefore(CaptureReads[i].at)

\* the plugs a space switch may key: the transform channels of the control
\* and the space attributes
SwitchPlugs == {<<Ctl, c>> : c \in TR} \cup SpacePlugs

\* the curve of p has, away from the frames t - 1 and t, the keys it had
\* when the last execution started, at the same values
KeptAwayFrom(p, t) ==
    /\ KeyTimes(keys[p]) \ {t - 1, t} = KeyTimes(pre.keys[p]) \ {t - 1, t}
    /\ \A k \in KeyTimes(pre.keys[p]) \ {t - 1, t} : keys[p][k] = pre.keys[p][k]

\* C22: a CurrentFrame space switch at t keys the transform channels of
\* the control at t - 1 with the values they had there, and leaves every
\* key of the control and of the space attributes at frames other than
\* t - 1 and t as it was.
C22_HoldKeepsValues ==
    CurrentFrameDone =>
        /\ \A c \in TR : (pre.time - 1) \in KeyTimes(keys[<<Ctl, c>>]) /\ keys[<<Ctl, c>>][pre.time - 1] = ValuesAt(pre.keys, pre.val, pre.time - 1)[<<Ctl, c>>]
        /\ \A p \in SwitchPlugs : KeptAwayFrom(p, pre.time)

\* a CurrentFrame space switch ran at a frame t of an animated control whose
\* channels differ between t - 1 and t and had no key at t - 1, other keys
\* lying elsewhere
C22_Witness ==
    /\ CurrentFrameDone
    /\ (pre.time - 1) \notin KeyTimes(pre.keys[<<Ctl, "translateX">>])
    /\ ValuesAt(pre.keys, pre.val, pre.time - 1)[<<Ctl, "translateX">>] /= ValuesAt(pre.keys, pre.val, pre.time)[<<Ctl, "translateX">>]
    /\ KeyTimes(pre.keys[<<Ctl, "translateX">>]) \ {pre.time - 1, pre.time} /= {}
    /\ source_value /= target_value

\* C23: after a switch that returns without an error, space or IK/FK, in
\* any of the three modes, the current time of the scene is the one it was
\* when the switch was invoked.
C23_TimeRestored ==
    (run.op /= "none" /\ run.started /\ ~run.raised) => time = pre.time

\* the last execution called get_fk_to_ik_switch and the call returned
FkToIkReturned == IkfkRan /\ ~run.raised /\ run.orig.shoulder_pos /= <<>>

\* C24: when get_fk_to_ik_switch returns, the IK wrist control has the world
\* position and rotation it had when the function was entered.
C24_IkWristRestored ==
    FkToIkReturned => run.seen.wrist_out = run.seen.wrist_in

\* the scene calls of the last call of get_fk_to_ik_switch
ProbeCalls == (run.seen.calls_in + 1)..run.seen.calls_out

\* those that set the IK switch attribute
SwitchWrites == {i \in ProbeCalls : run.log[i].op = "setAttr" /\ run.log[i].plug = AttrOf(ikfk_data, "ik switch")}

\* those that constrain the IK wrist control to the wrist joint
Probes == {i \in ProbeCalls : run.log[i].op = "parentConstraint"}

\* C25: get_fk_to_ik_switch sets the IK switch attribute twice, to the
\* target value between the two probes and back to the value found after
\* the second; on return the attribute holds the value it had on entry.
C25_IkSwitchUnchanged ==
    FkToIkReturned =>
        /\ run.seen.switch_out = run.seen.switch_in
        /\ Cardinality(SwitchWrites) = 2
        /\ Cardinality(Probes) = 2
        /\ run.log[SetMin(SwitchWrites)].arg = <<ValueOf(ikfk_data, "ik switch")>>
        /\ SetMin(Probes) < SetMin(SwitchWrites) /\ SetMin(SwitchWrites) < SetMax(Probes)
        /\ run.log[SetMax(SwitchWrites)].arg = <<run.seen.switch_in>>
        /\ SetMax(Probes) < SetMax(SwitchWrites)

\* get_fk_to_ik_switch returned in an execution that found the arm in FK,
\* the IK switch attribute away from its target value
C25_Witness ==
    /\ FkToIkReturned
    /\ bake_mode = "bakeKeyframes"
    /\ run.seen.switch_in /= ValueOf(ikfk_data, "ik switch")
    /\ val[AttrOf(ikfk_data, "ik switch")] = run.seen.switch_in

\* the poses the last call of get_fk_to_ik_switch read
ProbeReads == SubSeq(run.reads, run.seen.reads_in + 1, Len(run.reads))

\* after the read r and before the scene call k, the IK switch is set to
\* its target value and then the pose of r is applied to the IK wrist
\* control, translation first
AppliedBetween(r, k) ==
    \E i, j \in ProbeCalls :
        /\ r.n < i /\ i < j /\ j + 1 < k
        /\ run.log[i].op = "setAttr" /\ run.log[i].plug = AttrOf(ikfk_data, "ik switch") /\ run.log[i].arg = <<ValueOf(ikfk_data, "ik switch")>>
        /\ run.log[j].op = "xformT" /\ run.log[j].plug[1] = NodeOf(ikfk_data, "ik wrist") /\ run.log[j].arg = r.pose.pos
        /\ run.log[j + 1].op = "xformR" /\ run.log[j + 1].plug[1] = NodeOf(ikfk_data, "ik wrist") /\ run.log[j + 1].arg = r.pose.rot

\* C26: get_fk_to_ik_switch probes the wrist twice: the pose of the first
\* probe is applied to the IK wrist control, the IK switch being set to its
\* target value, before the second probe, and the wrist position and
\* rotation returned are those of the second probe.
C26_TwoProbes ==
    FkToIkReturned =>
        /\ Len(ProbeReads) = 2
        /\ Cardinality(Probes) = 2
        /\ \A i \in 1..2 : ProbeReads[i].node = NodeOf(ikfk_data, "ik wrist")
        /\ ProbeReads[1].n = SetMin(Probes)
        /\ ProbeReads[2].n = SetMax(Probes)
        /\ AppliedBetween(ProbeReads[1], SetMax(Probes))
        /\ run.data.a = ProbeReads[2].pose.pos
        /\ run.data.b = ProbeReads[2].pose.rot

\* get_fk_to_ik_switch returned in a switch at the current frame on an arm in
\* FK whose IK wrist control was away from the wrist joint
C26_Witness ==
    /\ FkToIkReturned
    /\ bake_mode = "currentFrame"
    /\ run.seen.switch_in = 0
    /\ run.seen.wrist_in.pos /= run.orig.wrist_pos
    /\ run.data.a = run.orig.wrist_pos

\* the scene calls of the switch step of the last execution: those after
\* the call of get_fk_to_ik_switch, all of them in the other direction
SetStepCalls == (IF ik_to_fk THEN 1 ELSE run.seen.calls_out + 1)..Len(run.log)

\* the three FK controls of the dictionary
FkControls == {NodeOf(ikfk_data, c) : c \in {"fk shoulder", "fk elbow", "fk wrist"}}

\* the calls of the switch step that write a world rotation
Rotations == {i \in SetStepCalls : run.log[i].op = "xformR"}

\* the channel ch of the node n has the curve and the value it had when the
\* last execution started
ChannelUntouched(n, ch) == keys[<<n, ch>>] = pre.keys[<<n, ch>>] /\ val[<<n, ch>>] = ValuesAt(pre.keys, pre.val, time)[<<n, ch>>]

\* the calls of the switch step on the node n write the channels in ws,
\* when they are transform writes, and key channels of ks only
TouchesOnly(n, ws, ks) == \A i \in SetStepCalls : run.log[i].plug[1] = n => (run.log[i].op \in ws \/ (run.log[i].op = "setKeyframe" /\ run.log[i].plug[2] \in ks))

\* C27: the IK to FK step writes and keys the rotate channels of the three
\* FK controls and no translate or scale channel of theirs, and applies the
\* rotations in the order shoulder, elbow, wrist; the FK to IK step keys the
\* translate and rotate channels of the IK wrist control and the translate
\* channels only of the IK elbow control.
C27_ChannelsOfTheStep ==
    /\ (IkfkCurrentFrameDone /\ ik_to_fk) =>
          /\ \A n \in FkControls : TouchesOnly(n, {"xformR"}, Rot)
          /\ \A n \in FkControls : \A ch \in SeqToSet(Channels) \ Rot : ChannelUntouched(n, ch)
          /\ \A n \in FkControls : \A ch \in Rot : pre.time \in KeyTimes(keys[<<n, ch>>])
          /\ Cardinality(Rotations) = 3
          /\ \E i, j, k \in Rotations : i < j /\ j < k /\ run.log[i].plug[1] = NodeOf(ikfk_data, "fk shoulder") /\ run.log[j].plug[1] = NodeOf(ikfk_data, "fk elbow") /\ run.log[k].plug[1] = NodeOf(ikfk_data, "fk wrist")
    /\ (IkfkCurrentFrameDone /\ ~ik_to_fk) =>
          /\ TouchesOnly(NodeOf(ikfk_data, "ik wrist"), {"xformT", "xformR"}, TR)
          /\ TouchesOnly(NodeOf(ikfk_data, "ik elbow"), {"xformT"}, Trans)
          /\ \A ch \in TR : pre.time \in KeyTimes(keys[<<NodeOf(ikfk_data, "ik wrist"), ch>>])
          /\ \A ch \in Trans : pre.time \in KeyTimes(keys[<<NodeOf(ikfk_data, "ik elbow"), ch>>])
          /\ \A ch \in SeqToSet(Channels) \ Trans : ChannelUntouched(NodeOf(ikfk_data, "ik elbow"), ch)
          /\ \A ch \in SeqToSet(Channels) \ TR : ChannelUntouched(NodeOf(ikfk_data, "ik wrist"), ch)

\* an IK to FK switch at the current frame ran on an arm found in IK whose
\* FK controls had no keys, and turned the FK shoulder control
C27_Witness ==
    /\ IkfkCurrentFrameDone
    /\ ik_to_fk
    /\ pre.time > 1
    /\ IkOn(pre.val)
    /\ KeyTimes(keys[<<FkElbow, "rotateX">>]) = {pre.time - 1, pre.time}
    /\ KeyTimes(keys[<<FkElbow, "translateX">>]) = {}
    /\ \E ch \in Rot : val[<<FkShoulder, ch>>] /= pre.val[<<FkShoulder, ch>>]

\* C28: after any sequence of edits of the start and end fields, empty ones
\* included, the stored start frame is strictly below the stored end frame
\* once a non-empty edit was made, and each field shows its stored value.
C28_FieldsOrdered ==
    /\ fields.edited => int_of(fields.start_stored) < int_of(fields.end_stored)
    /\ fields.start_text = fields.start_stored
    /\ fields.end_text = fields.end_stored
    /\ start_frame = int_of(fields.start_stored)
    /\ end_frame = int_of(fields.end_stored)

\* the end frame was typed with a leading zero at or below the start frame,
\* which was moved below it
C28_Witness ==
    /\ fields.edited
    /\ fields.end_text = <<"0", "1">>
    /\ fields.start_stored = <<"0">>

\* a bake of every frame of a control that has a key
EveryFrameKeyed == SpaceRan /\ bake_mode = "everyFrame" /\ RefKeys({Ctl}) /= {}

\* C29: in a bake of every frame the list of frames has two entries or more,
\* whether it comes from the range fields or from the playback range, and
\* the head and tail checks never index an empty list of frames.
C29_FrameListHasTwo ==
    EveryFrameKeyed => Len(CaptureReads) >= 2 /\ run.err /= "IndexError"

\* a bake of every frame read one frame only
C29_ShortList == EveryFrameKeyed /\ Len(CaptureReads) = 1

\* a bake of every frame indexed the list of frames the head step had
\* emptied
C29_EmptyIndexed == EveryFrameKeyed /\ run.err = "IndexError" /\ BlockEntries("head") /= {}

\* a bake of every frame of a control that has no key
EveryFrameUnkeyed == SpaceRan /\ bake_mode = "everyFrame" /\ RefKeys({Ctl}) = {}

\* C30: for a control without keyframes a bake of every frame either stops
\* before any scene call or keys the target space at the target value on
\* every frame of the range; it never stops with an error having only set
\* and keyed the source space across the range.
C30_UnkeyedAllOrNothing ==
    EveryFrameUnkeyed => run.log = <<>> \/ (~run.raised /\ \A f \in BakedRange : f \in KeyTimes(keys[target_space]) /\ keys[target_space][f] = target_value)

\* the bake of an unkeyed control stopped on the index of its empty list of
\* keyframes: it moved the time, set and keyed the source space on every
\* frame of the range, and did nothing else
C30_SourceKeyedOnly ==
    /\ EveryFrameUnkeyed
    /\ run.raised /\ run.err = "IndexError"
    /\ \A f \in BakedRange : f \in KeyTimes(keys[source_space]) /\ f \notin KeyTimes(pre.keys[source_space])
    /\ \A i \in 1..Len(run.log) : run.log[i].op = "currentTime" \/ run.log[i].plug = source_space
    /\ keys[target_space] = pre.keys[target_space]

\* a bake of every frame read the playback range of the scene
TimelineRead == SpaceRan /\ bake_mode = "everyFrame" /\ ~set_time_range

\* C36: get_timeline_range returns the two ends of the playback range and
\* the number of its frames, max - min + 1, which is 1 or more whenever
\* min <= max.
C36_TimelineRange ==
    TimelineRead =>
        /\ get_timeline_range[1] = playback.min
        /\ get_timeline_range[2] = playback.max
        /\ get_timeline_range[3] = playback.max - playback.min + 1
        /\ get_timeline_range[3] >= 1

\* the third value returned for a range of two frames or more is 0 or
\* negative: min - max + 1
C36_Negated ==
    /\ TimelineRead
    /\ playback.min < playback.max
    /\ get_timeline_range[3] = playback.min - playback.max + 1
    /\ get_timeline_range[3] <= 0

\* the name n is a transform node of the scene the call was made in
Resolves(n) == n \in nodes /\ nodeType(n) /= "network"

\* the call left the scene as it found it and issued no scene call
NothingWritten == run.log = <<>> /\ val = pre.val /\ keys = pre.keys /\ time = pre.time

\* C34: get_world_matrix writes nothing and returns the null pose for a name
\* that does not resolve to a transform, the world pose of the node
\* otherwise; apply_world_matrix leaves the scene unchanged for such a name
\* and, for a transform, writes the world translation first and the world
\* rotation second.
C34_NullPoseAndOrder ==
    /\ run.op = "get_world_matrix" =>
          /\ NothingWritten
          /\ run.reads[1].pose = IF Resolves(run.args[1]) THEN WorldPose(pre.val, run.args[1]) ELSE NonePose
    /\ (run.op = "apply_world_matrix" /\ ~Resolves(run.args[1])) => NothingWritten
    /\ (run.op = "apply_world_matrix" /\ Resolves(run.args[1])) =>
          /\ Len(run.log) = 2
          /\ run.log[1].op = "xformT" /\ run.log[1].plug[1] = run.args[1] /\ run.log[1].arg = run.args[2].pos
          /\ run.log[2].op = "xformR" /\ run.log[2].plug[1] = run.args[1] /\ run.log[2].arg = run.args[2].rot
          /\ keys = pre.keys

\* a pose was applied to the deleted control, with no effect, after the
\* same pose was applied to a control, whose translation and rotation it
\* changed
C34_Witness ==
    /\ run.op = "apply_world_matrix"
    /\ run.args[1] = Ctl /\ Ctl \notin nodes
    /\ NothingWritten
    /\ pre.op = "apply_world_matrix"
    /\ WorldPose(val, FkElbow) = [pos |-> <<1, 2, 3>>, rot |-> <<4, 5, 6>>]

\* the plugs create_transform_keys set a key on
KeyedPlugs == {run.log[i].plug : i \in {j \in 1..Len(run.log) : run.log[j].op = "setKeyframe"}}

\* C35: create_transform_keys sets keys only on nodes named in its objects
\* argument and only on the channels whose flag is True; when every node
\* in objects is invalid or missing it sets no key on any other node.
C35_KeysOnlyTheObjects ==
    run.op = "create_transform_keys" =>
        /\ \A p \in KeyedPlugs : p[1] \in SeqToSet(run.args[1]) /\ p[2] \in run.args[2]
        /\ \A p \in attrs : keys[p] /= pre.keys[p] => p \in KeyedPlugs
        /\ SeqToSet(run.args[1]) \cap nodes = {} => keys = pre.keys

\* called on None alone with nodes selected, the function keyed the
\* flagged channel of the selected nodes
C35_SelectionKeyed ==
    /\ run.op = "create_transform_keys"
    /\ run.args = <<(<<"">>), {"translateX"}>>
    /\ selection = <<FkElbow, IkWrist>>
    /\ KeyedPlugs = {<<FkElbow, "translateX">>, <<IkWrist, "translateX">>}
    /\ keys /= pre.keys

\* the mode of the dictionary d is the mode of its key set
ModeMatchesKeys(d) == (DOMAIN d = SpaceKeys /\ d["mode"] = StrV("space switch")) \/ (DOMAIN d = IkfkKeys /\ d["mode"] = StrV("ikfk switch"))

\* C31: the validation of a dictionary for a mode succeeds only if its
\* "mode" entry is that mode; so every dictionary accepted into the list or
\* into a tab has the mode of its key set, and selecting an item of the
\* list never sends a space switch dictionary to the ik/fk tab or an ik/fk
\* dictionary to the space switch tab.
C31_ModeDiscriminates ==
    /\ (run.op = "load" /\ run.warns = <<>> /\ panel.tab /= "main") => FileData(run.args[1])["mode"] = StrV(IF panel.tab = "space" THEN "space switch" ELSE "ikfk switch")
    /\ \A n \in panel.file_list_items : ModeMatchesKeys(FileData(n))
    /\ DOMAIN space_data = SpaceKeys /\ space_data["mode"] = StrV("space switch")
    /\ DOMAIN ikfk_data = IkfkKeys /\ ikfk_data["mode"] = StrV("ikfk switch")
    /\ run.op \in {"click", "menu", "delete"} => ~run.raised

\* the list holds a dictionary with the keys of a space switch and the mode
\* "ikfk switch"
C31_MixedListed == "mixed" \in panel.file_list_items /\ ~ModeMatchesKeys(FileData("mixed"))

\* a click on that item put the space switch dictionary in the place of
\* the ik/fk dictionary and the handler stopped on a missing key
C31_Misrouted ==
    /\ run.op = "click" /\ run.args = <<"mixed">>
    /\ run.err = "KeyError"
    /\ DOMAIN ikfk_data = SpaceKeys
    /\ panel.selected_item /= Item("mixed")

\* the space switch tab took a dictionary whose mode is "ikfk switch"
C31_TabTookOtherMode ==
    /\ run.op = "load" /\ run.args = <<"mixed">> /\ panel.tab = "space"
    /\ DOMAIN space_data = SpaceKeys /\ space_data["mode"] = StrV("ikfk switch")

\* C32: after any sequence of list operations (click, context menu,
\* delete, add, refresh), _selected_item is None or an item of the list
\* widget whose name is a key of _file_list_items, so that saving from the
\* main tab never looks up a missing entry.
C32_SelectedItemListed ==
    /\ panel.selected_item = NoItem \/ (panel.selected_item.kind = "item" /\ panel.selected_item.name \in SeqToSet(panel.items) /\ panel.selected_item.name \in panel.file_list_items)
    /\ (run.op = "save" /\ panel.tab = "main") => ~run.raised

\* a refresh left _selected_item on an item the list widget has deleted
C32_StaleAfterRefresh ==
    /\ run.op = "refresh"
    /\ panel.selected_item = Stale("space")
    /\ panel.items = <<>>

\* saving from the main tab then read the name of the deleted item and
\* looked up an entry _file_list_items does not have
C32_SaveMissing ==
    /\ run.op = "save" /\ panel.tab = "main"
    /\ run.err = "KeyError"
    /\ panel.selected_item.kind = "stale"
    /\ panel.selected_item.name \notin panel.file_list_items

\* the dictionary of the tab a key belongs to, after the step
LoadedDictAfter(key) == IF key \in SpaceKeys THEN space_data' ELSE ikfk_data'

\* the load handler ran on a selection that is not valid for its key
InvalidLoadStep ==
    /\ selection' = selection
    /\ \/ run'.op = "load_attr_value" /\ ~(Len(selection) = 1 /\ Len(run'.args[2]) = 1)
       \/ run'.op = "load_target_control" /\ Len(SelectSeq(selection, LAMBDA n : IF run'.args[1] \in {"shoulder joint", "elbow joint", "wrist joint"} THEN nodeType(n) = "joint" ELSE nodeType(n) \in {"transform", "joint"})) /= 1

\* the step is an execution of the switch of the dictionary d
ExecutionOf(op) == switches' = switches + 1 /\ run'.op = op

\* the execution was turned down by the validation and left the scene alone
RejectedUntouched == ~run'.started /\ run'.log = <<>> /\ run'.warns /= <<>> /\ val' = val /\ keys' = keys /\ time' = time /\ nodes' = nodes /\ attrs' = attrs

\* the entry of key went from empty to not empty through a load of a valid
\* value: by the load button of the key, or by a preset the validation took
FilledByValidLoad(key, std_keys, attr_keys) ==
    \/ run'.op \in {"load_attr_value", "load_target_control"} /\ run'.args[1] = key /\ run'.warns = <<>> /\ ValidEntry(key, LoadedDictAfter(key)[key], attr_keys, nodes, attrs)
    \/ run'.op = "load" /\ run'.warns = <<>> /\ run'.err = "" /\ validate_switch_data(std_keys, attr_keys, LoadedDictAfter(key), nodes, attrs)

\* C33: after load_attr_value or load_target_control ran on an invalid
\* selection for a key, the stored value of that key is empty; while a key
\* of a mode is empty every execution of that mode is rejected and changes
\* nothing in the scene; and an empty entry is filled again only by loading
\* a valid value for it, by a valid selection or by a valid preset.
C33_EmptyKeyBlocksSwitch ==
    [][/\ InvalidLoadStep => Empty(LoadedDictAfter(run'.args[1])[run'.args[1]])
       /\ (ExecutionOf("space") /\ \E k \in DOMAIN space_data : Empty(space_data[k])) => RejectedUntouched
       /\ (ExecutionOf("ikfk") /\ \E k \in DOMAIN ikfk_data : Empty(ikfk_data[k])) => RejectedUntouched
       /\ \A k \in DOMAIN space_data : (Empty(space_data[k]) /\ k \in DOMAIN space_data' /\ ~Empty(space_data'[k])) => FilledByValidLoad(k, SpaceKeys, SpaceAttrKeys)
       /\ \A k \in DOMAIN ikfk_data : (Empty(ikfk_data[k]) /\ k \in DOMAIN ikfk_data' /\ ~Empty(ikfk_data'[k])) => FilledByValidLoad(k, IkfkKeys, IkfkAttrKeys)]_vars

\* a preset was loaded, the load button of the source space was then pressed
\* on an invalid selection, and the execution that followed was rejected on
\* that entry alone
C33_RejectedOnEmptiedKey ==
    /\ run.op = "space" /\ ~run.started /\ run.warns /= <<>>
    /\ Empty(space_data["source space"])
    /\ \A k \in SpaceKeys \ {"source space"} : ValidEntry(k, space_data[k], SpaceAttrKeys, nodes, attrs)

====
